---------------------------- MODULE Spec2Model ----------------------------
(***************************************************************************)
(* Census & ingestion pipeline of the Russian Law MCP                      *)
(* (scripts/ingest.ts, here src/unnamed/part_001) together with the        *)
(* rate-limited HTTP client it drives (src/scripts/lib/fetcher.ts).        *)
(*                                                                         *)
(* One behaviour is a sequence of process runs of the pipeline over the    *)
(* same data directory.  Inside a run the steps are those of main():       *)
(* runCensus (validation, census.json), then runIngestion, whose loop      *)
(* calls ingestLaw for one entry at a time; ingestLaw calls                *)
(* fetchPravoLawText -> fetchWithRateLimit, whose retry loop is modelled   *)
(* attempt by attempt on a millisecond clock.                              *)
(***************************************************************************)
EXTENDS Integers, Sequences, FiniteSets, TLC

(***************************************************************************)
(* Bounds of the model.                                                    *)
(***************************************************************************)
\* Number of consecutive process runs over the same data directory.
MaxRuns == 2
\* Largest number of catalog entries classified 'ingestable'.
MaxIngestable == 2
\* Largest value given to --limit (0 stands for "no --limit").
MaxLimit == 1
\* Time is kept as ages, in ms: the code reads the clock only in the
\* difference Date.now() - lastRequestTime, and an age stops growing at
\* AgeCap (above MIN_DELAY_MS, so every comparison with it is exact).
AgeCap == 2000

(***************************************************************************)
(* Program constants.                                                      *)
(***************************************************************************)
MIN_DELAY_MS == 1000
maxRetries == 3
\* ingestLaw accepts a body only when body.length > 100.
MinContentLength == 100

\* The ids runCensus requires to be present in the census.
requiredLaws ==
  <<"constitution-rf", "uk-rf", "gk-rf-1", "fz-152-2006", "fz-149-2006",
    "fz-187-2017">>

(***************************************************************************)
(* The catalog (getFullCensus).  The model's catalogs hold the six         *)
(* required laws and one more code, in census order; a catalog variant     *)
(* leaves out one id and makes the first nIngest odd-placed entries        *)
(* 'ingestable', the others carrying the three other classifications.      *)
(***************************************************************************)
CatalogIds ==
  <<"constitution-rf", "gk-rf-1", "uk-rf", "tk-rf", "fz-152-2006",
    "fz-149-2006", "fz-187-2017">>

Classifications == {"ingestable", "ocr_needed", "inaccessible", "excluded"}

ClassificationAt(k, nIngest) ==
  IF k % 2 = 1 /\ (k + 1) \div 2 <= nIngest THEN "ingestable"
  ELSE IF k % 3 = 0 THEN "ocr_needed"
  ELSE IF k % 3 = 1 THEN "inaccessible"
  ELSE "excluded"

\* One CensusEntry: the fields the pipeline reads.  description is optional
\* in CensusEntry ("" stands for undefined); eu says whether the entry has
\* eu_references.
CensusEntryAt(k, nIngest) ==
  [ id             |-> CatalogIds[k],
    title          |-> "T:" \o CatalogIds[k],
    description    |-> IF k % 2 = 1 /\ k > 1 THEN "" ELSE "D:" \o CatalogIds[k],
    classification |-> ClassificationAt(k, nIngest),
    source_url     |-> "http://pravo.gov.ru/" \o CatalogIds[k],
    eu             |-> CatalogIds[k] \in {"fz-152-2006", "fz-149-2006", "fz-187-2017"} ]

getFullCensus(missing, nIngest) ==
  LET all == [k \in 1..Len(CatalogIds) |-> CensusEntryAt(k, nIngest)]
      Keep(e) == e.id # missing
  IN  SelectSeq(all, Keep)

Ids == {CatalogIds[k] : k \in 1..Len(CatalogIds)}

(***************************************************************************)
(* HTTP: what the remote host may answer to one request.                   *)
(***************************************************************************)
\* A response body, reduced to what ingestLaw and the parser read of it:
\* its length in characters, whether it contains '<html', and the number of
\* provisions parseRussianText extracts from its text.
Bodies ==
  { [len |-> 40,   html |-> FALSE, articles |-> 0],
    [len |-> 100,  html |-> FALSE, articles |-> 1],
    [len |-> 5000, html |-> FALSE, articles |-> 0],
    [len |-> 5000, html |-> FALSE, articles |-> 2],
    [len |-> 5000, html |-> TRUE,  articles |-> 2] }

ErrorBody == [len |-> 300, html |-> TRUE, articles |-> 0]

Statuses == {200, 404, 429, 503}

Responses ==
  { [status |-> 200, body |-> b] : b \in Bodies }
    \cup { [status |-> s, body |-> ErrorBody] : s \in Statuses \ {200} }

\* Time from sending a request to its response (or its failure), in ms.
Latencies == {100, 1500}

(***************************************************************************)
(* State.                                                                  *)
(***************************************************************************)
VARIABLES
  catalog,          \* the census loaded by getFullCensus()
  limit,            \* --limit N (0: none)
  skipFetch,        \* --skip-fetch
  censusOnly,       \* --census-only
  run,              \* number of the current process run
  pc,               \* position of the process
  exitCode,         \* -1 while running, else the process's exit status
  censusFile,       \* data/census.json: "absent", "census", "updated"
  euRefsFile,       \* data/seed/_eu-references.json exists
  disk,             \* data/seed/{id}.json, per id
  toProcess,        \* runIngestion: the entries to ingest
  i,                \* runIngestion: loop index (entries handled so far)
  results,          \* runIngestion: CensusResult[]
  successCount, failCount, skipCount, totalProvisions,
  provisions,       \* ingestLaw: the provisions about to be written
  elapsed,          \* rateLimit: Date.now() - lastRequestTime, were it read now
  attempt,          \* fetchWithRateLimit: loop variable
  fetchResult,      \* what the last fetchWithRateLimit call gave its caller
  report,           \* the summary printed and written to census.json
  \* history variables, read by the properties only
  requestsSent,     \* HTTP requests sent by the current fetch call
  sinceLastSend,    \* time since the latest HTTP request of this process
                    \* was sent (-1: none was)
  firstGap,         \* time between the latest request of the call before and
                    \* the current call's first request (-1: no call before)
  lastResponse,     \* the latest response received by the current call
  backoffs,         \* backoff delays slept by the current call, in order
  fetched,          \* ids fetchPravoLawText was called for in this run
  outcome,          \* per id, how this run's ingestLaw ended
  prevOutcome,      \* outcome of the run before
  prevReport        \* report of the run before

\* parseRussianText (src/unnamed/part_002), read line by line
VARIABLES
  text,             \* the lines of the input read so far
  pst,              \* parseRussianText: its local variables
  parsed,           \* the list parseRussianText returned
  ppc               \* position of the parse: "idle", "lines", "done"

\* fetchWithRateLimit called by several tasks of one process
VARIABLES
  clock,            \* Date.now(), in ms since the process started
  lastRequestTime,  \* fetcher.ts: the module-level lastRequestTime
  calls             \* per call of fetchWithRateLimit: its position and times

\* one attempt of fetchWithRateLimit, with its abort timer
VARIABLES
  attemptTime,      \* ms since the attempt's timer was set (-1: no attempt)
  timerArmed        \* the setTimeout(() => controller.abort()) is pending

\* the parts outside the ingestion pipeline
VARIABLES
  dec,              \* fetchWithRateLimit: one response and its decoded body
  drift,            \* drift-detect.ts: one run of main
  cite              \* citations.ts: one citation, formatted and parsed

cliVars  == <<catalog, limit, skipFetch, censusOnly>>
fileVars == <<censusFile, euRefsFile, disk>>
loopVars == <<toProcess, i, results, successCount, failCount, skipCount,
              totalProvisions>>
fetchVars == <<elapsed, attempt, fetchResult>>
histVars == <<requestsSent, sinceLastSend, firstGap, lastResponse, backoffs,
              fetched, outcome, prevOutcome, prevReport>>
parserVars == <<text, pst, parsed, ppc>>
limiterVars == <<clock, lastRequestTime, calls>>
timerVars == <<attemptTime, timerArmed>>
toolVars == <<dec, drift, cite>>
\* what no step of the pipeline touches
sideVars == <<parserVars, limiterVars, timerVars, toolVars>>
vars == <<cliVars, run, pc, exitCode, fileVars, loopVars, provisions,
          fetchVars, report, histVars, sideVars>>

(***************************************************************************)
(* Values.                                                                 *)
(***************************************************************************)
AbsentFile  == [state |-> "absent",  provisions |-> <<>>]
CorruptFile == [state |-> "corrupt", provisions |-> <<>>]

NoResult   == [kind |-> "none",  status |-> 0, body |-> ErrorBody, serial |-> -1]
NoResponse == [kind |-> "none",  status |-> 0, body |-> ErrorBody, serial |-> -1]
NoReport ==
  [ total_processed |-> -1, success_count |-> -1, fail_count |-> -1,
    skip_count |-> -1, total_provisions |-> -1, failed |-> <<>>,
    coverage_nan |-> FALSE, coverage_tenths |-> -1 ]

NoOutcome == [id \in Ids |-> "none"]

(***************************************************************************)
(* Pure functions of the pipeline.                                         *)
(***************************************************************************)
Min(a, b) == IF a <= b THEN a ELSE b

Pow2(n) == IF n = 0 THEN 1 ELSE IF n = 1 THEN 2 ELSE IF n = 2 THEN 4
           ELSE IF n = 3 THEN 8 ELSE 16

\* Variant of allPresent: the loop over requiredLaws stops one short.
allPresentButLast(census) ==
  \A r \in 1..(Len(requiredLaws) - 1) :
    \E j \in 1..Len(census) : census[j].id = requiredLaws[r]

\* runCensus: every required law is found in the census.
allPresent(census) ==
  \A r \in 1..Len(requiredLaws) :
    \E j \in 1..Len(census) : census[j].id = requiredLaws[r]

\* A variant that also takes the entries waiting for OCR.
IsIngestableOrOcr(e) == e.classification \in {"ingestable", "ocr_needed"}

\* e.classification === 'ingestable': the filter of runIngestion and, negated,
\* the gate of ingestLaw.
IsIngestable(e) == e.classification = "ingestable"

\* A variant that takes the entries from the end of the census.
ToProcessFromEnd(census, lim) ==
  LET ingestable == SelectSeq(census, IsIngestable)
      Reversed == [k \in 1..Len(ingestable) |->
                     ingestable[Len(ingestable) + 1 - k]]
  IN  IF lim > 0 THEN SubSeq(Reversed, 1, Min(lim, Len(ingestable)))
      ELSE Reversed

\* Variant of ToProcess: the census is not filtered by classification.
ToProcessUnfiltered(census, lim) ==
  IF lim > 0 THEN SubSeq(census, 1, Min(lim, Len(census))) ELSE census

\* Variant of ToProcess: the slice takes one entry more than the limit.
ToProcessOneMore(census, lim) ==
  LET ingestable == SelectSeq(census, IsIngestable)
  IN  IF lim > 0 THEN SubSeq(ingestable, 1, Min(lim + 1, Len(ingestable)))
      ELSE ingestable

\* runIngestion: census.filter(ingestable), then slice(0, limit) if limit > 0.
ToProcess(census, lim) ==
  LET ingestable == SelectSeq(census, IsIngestable)
  IN  IF lim > 0 THEN SubSeq(ingestable, 1, Min(lim, Len(ingestable)))
      ELSE ingestable

\* Variant of AlreadyIngested: no seed file is taken as ingested.
AlreadyIngestedNever(file) == FALSE

\* Variant of AlreadyIngested: the seed file exists.
AlreadyIngestedIfPresent(file) == file.state # "absent"

\* Variant of AlreadyIngested: provisions.length > 1.
AlreadyIngestedMoreThanOne(file) ==
  file.state = "ok" /\ Len(file.provisions) > 1

\* ingestLaw: the seed file exists, parses, and holds at least one provision.
AlreadyIngested(file) ==
  file.state = "ok" /\ Len(file.provisions) > 0

\* Variant of Retryable: status >= 400.
RetryableFrom400(status) == status = 429 \/ status >= 400

\* fetchWithRateLimit: the statuses that are retried.
Retryable(status) == status = 429 \/ status >= 500

\* fetchWithRateLimit: backoff after an HTTP-status failure of `a`.
HttpBackoff(a) == Pow2(a + 1) * 1000

\* Variant of NetBackoff: a base delay of 5000 ms.
NetBackoffBase5000(a) == Pow2(a + 1) * 5000

\* fetchWithRateLimit: backoff after a network-level failure of `a`.
NetBackoff(a) == Pow2(a + 1) * 2000

\* parseRussianText / parsePravoHtml(...).provisions, on a body from which
\* the parser extracts body.articles articles: numbered provisions with
\* contiguous order_index.
ParsedProvisions(body) ==
  [ k \in 1..body.articles |->
      [ article       |-> ToString(k),
        title         |-> "",
        content       |-> "text of article " \o ToString(k),
        provision_ref |-> ToString(k),
        order_index   |-> k - 1 ] ]

\* Variant of ContentAccepted: body.length >= 100.
ContentAcceptedAtThreshold(result) ==
  result.status = 200 /\ result.body.len >= MinContentLength

\* ingestLaw: the body is taken only from a 200 response longer than the
\* minimum content length.
ContentAccepted(result) ==
  result.status = 200 /\ result.body.len > MinContentLength

\* ingestLaw: the provisions extracted from a fetch result.
Extract(result) ==
  IF ContentAccepted(result) THEN ParsedProvisions(result.body) ELSE <<>>

\* ingestLaw: the placeholder provision.
PlaceholderProvision(entry) ==
  [ article       |-> "0",
    title         |-> entry.title,
    content       |-> (IF entry.description # "" THEN entry.description
                       ELSE entry.title)
                      \o "\n\nFederal legislation of the Russian Federation.\nSource: "
                      \o entry.source_url,
    provision_ref |-> "0",
    order_index   |-> 0 ]

\* ingestLaw: a placeholder replaces an empty extraction.
FinalProvisions(entry, extracted) ==
  IF Len(extracted) = 0 THEN <<PlaceholderProvision(entry)>> ELSE extracted

\* ingestLaw: the SeedFile written for an entry.
BuildSeed(entry, provs) ==
  [state |-> "ok", provisions |-> provs]

\* runIngestion: result.error?.includes('already').  None of the messages
\* ingestLaw returns contains the word.
IncludesAlready(error) == error \in {"already ingested"}

\* runIngestion: coverage_pct = ((successCount / total) * 100).toFixed(1),
\* kept in tenths of a percent; 0 / 0 is NaN.
CoveragePct(success, total) ==
  IF total = 0 THEN [nan |-> TRUE, tenths |-> 0]
  ELSE [nan |-> FALSE, tenths |-> (success * 2000 + total) \div (2 * total)]

\* runIngestion: the failed laws listed in the summary.
FailedList(res) ==
  LET NotIngested(r) == ~r.ingested
  IN  SelectSeq(res, NotIngested)

(***************************************************************************)
(* parser.ts (src/unnamed/part_002): parseRussianText.                     *)
(*                                                                         *)
(* A text is the sequence of its lines (what text.split(/\r?\n/) gives)    *)
(* and a line is the sequence of its atoms: maximal runs of digits, of     *)
(* blanks, of letters and the like, or one period.  The regular            *)
(* expressions of the parser are evaluated atom by atom.  The Cyrillic     *)
(* keywords are written in Latin letters: "Statya" for the article         *)
(* keyword, "Glava", "Razdel", "Chast", "Podrazdel" for the chapter        *)
(* keywords and "Prilozhenie" for the appendix keyword.                    *)
(***************************************************************************)
\* Largest number of lines of an input text.
MaxLines == 4

KW  == "Statya"
APP == "Prilozhenie"
SP  == " "
DOT == "."
ChapterWords == {"Glava", "Razdel", "Chast", "Podrazdel"}
Digits == {"1", "2", "5", "6", "12"}
\* Atoms whose first character is a Latin letter of [IVXLCDM] (the
\* pattern is case-insensitive), and all atoms made of Latin letters.
RomanInitial == {"II", "Title"}
LatinWords == RomanInitial \cup {"Right to privacy", "Everyone",
                                 "Everyone has the right..."}
\* 25 letters, and a run of 200 of them
W25 == "abcdefghijklmnopqrstuvwxy"
W200 == W25 \o W25 \o W25 \o W25 \o W25 \o W25 \o W25 \o W25

\* \w of a JavaScript regular expression without the u flag: [A-Za-z0-9_];
\* a Cyrillic letter is not a word character.
IsWordChar(atom) == atom \in Digits \cup LatinWords \cup {W200}

Drop(s, n) == SubSeq(s, n + 1, Len(s))

RECURSIVE SkipWs(_)
\* \s* at the head of what is left of a line
SkipWs(s) == IF s # <<>> /\ s[1] = SP THEN SkipWs(Drop(s, 1)) ELSE s

RECURSIVE SkipDotWs(_)
\* [\.\s]* at the head of what is left of a line
SkipDotWs(s) ==
  IF s # <<>> /\ s[1] \in {SP, DOT} THEN SkipDotWs(Drop(s, 1)) ELSE s

RECURSIVE DropTrailingWs(_)
DropTrailingWs(s) ==
  IF s # <<>> /\ s[Len(s)] = SP
  THEN DropTrailingWs(SubSeq(s, 1, Len(s) - 1)) ELSE s

\* String.prototype.trim on one line
TrimLine(s) == DropTrailingWs(SkipWs(s))

RECURSIVE LineLength(_)
\* .length of a line
LineLength(s) == IF s = <<>> THEN 0 ELSE Len(s[1]) + LineLength(Drop(s, 1))

RECURSIVE LineText(_)
\* the string a line is
LineText(s) == IF s = <<>> THEN "" ELSE s[1] \o LineText(Drop(s, 1))

NoMatch == [matched |-> FALSE, num |-> "", rest |-> <<>>]

\* line.match(ARTICLE_PATTERN), /^\s*Statya\s+(\d+(?:\.\d+)?)\.\s*(.*)/:
\* the number must be followed by a period.  When "N.M" is not followed by
\* one, the match backtracks to the number N, its period, and "M..." as
\* the rest.
ARTICLE_PATTERN(raw) ==
  LET line == SkipWs(raw)
  IN  IF Len(line) >= 4 /\ line[1] = KW /\ line[2] = SP
         /\ line[3] \in Digits /\ line[4] = DOT
      THEN IF Len(line) >= 6 /\ line[5] \in Digits /\ line[6] = DOT
           THEN [matched |-> TRUE, num |-> line[3] \o "." \o line[5],
                 rest |-> SkipWs(Drop(line, 6))]
           ELSE [matched |-> TRUE, num |-> line[3],
                 rest |-> SkipWs(Drop(line, 4))]
      ELSE NoMatch

\* line.match(ARTICLE_PATTERN_ALT),
\* /^\s*Statya\s+(\d+(?:\.\d+)?)\b[\.\s]*(.*)/: the number must end at a
\* word boundary.
ARTICLE_PATTERN_ALT(raw) ==
  LET line == SkipWs(raw)
      Boundary(after) == after = <<>> \/ ~IsWordChar(after[1])
  IN  IF Len(line) >= 3 /\ line[1] = KW /\ line[2] = SP /\ line[3] \in Digits
      THEN IF Len(line) >= 5 /\ line[4] = DOT /\ line[5] \in Digits
              /\ Boundary(Drop(line, 5))
           THEN [matched |-> TRUE, num |-> line[3] \o "." \o line[5],
                 rest |-> SkipDotWs(Drop(line, 5))]
           ELSE IF Boundary(Drop(line, 3))
                THEN [matched |-> TRUE, num |-> line[3],
                      rest |-> SkipDotWs(Drop(line, 3))]
                ELSE NoMatch
      ELSE NoMatch

\* A variant that also takes a chapter keyword for the article keyword.
ArticleMatchAnyKeyword(line) ==
  IF Len(line) >= 3 /\ line[1] \in ChapterWords /\ line[2] = SP
     /\ line[3] \in Digits
  THEN [matched |-> TRUE, num |-> line[3], rest |-> SkipDotWs(Drop(line, 3))]
  ELSE IF ARTICLE_PATTERN(line).matched THEN ARTICLE_PATTERN(line)
       ELSE ARTICLE_PATTERN_ALT(line)

\* line.match(ARTICLE_PATTERN) || line.match(ARTICLE_PATTERN_ALT)
ArticleMatch(line) ==
  IF ARTICLE_PATTERN(line).matched THEN ARTICLE_PATTERN(line)
  ELSE ARTICLE_PATTERN_ALT(line)

\* A variant of CHAPTER_PATTERN that takes no line for a heading.
ChapterPatternNever(raw) == FALSE

\* CHAPTER_PATTERN.test(line),
\* /^\s*(Glava|Razdel|Chast|Podrazdel)\s+[\dIVXLCDM]+/i
CHAPTER_PATTERN(raw) ==
  LET line == SkipWs(raw)
  IN  /\ Len(line) >= 3
      /\ line[1] \in ChapterWords
      /\ line[2] = SP
      /\ line[3] \in Digits \cup RomanInitial

\* APPENDIX_PATTERN.test(line), /^\s*Prilozhenie\b/i: the last letter of the
\* keyword is Cyrillic, not a word character, so there is a word boundary
\* after it only when a word character follows it directly.
APPENDIX_PATTERN(raw) ==
  LET line == SkipWs(raw)
  IN  /\ Len(line) >= 2
      /\ line[1] = APP
      /\ IsWordChar(line[2])

\* restOfLine.match(/^\d+\.\s/)
EnumeratedItem(rest) ==
  Len(rest) >= 3 /\ rest[1] \in Digits /\ rest[2] = DOT /\ rest[3] = SP

RECURSIVE CollapseBlank(_)
\* .replace(/\n{3,}/g, '\n\n') on the joined lines: a run of empty lines
\* becomes one empty line
CollapseBlank(c) ==
  IF Len(c) < 2 THEN c
  ELSE IF c[1] = <<>> /\ c[2] = <<>> THEN CollapseBlank(Drop(c, 1))
       ELSE <<c[1]>> \o CollapseBlank(Drop(c, 1))

RECURSIVE TrimBlank(_)
\* .trim() on the joined lines: no empty line at either end
TrimBlank(c) ==
  IF c # <<>> /\ c[1] = <<>> THEN TrimBlank(Drop(c, 1))
  ELSE IF c # <<>> /\ c[Len(c)] = <<>> THEN TrimBlank(SubSeq(c, 1, Len(c) - 1))
       ELSE c

\* The locals of parseRussianText before its loop.
ParseStart ==
  [num |-> "", title |-> "", content |-> <<>>, orderIndex |-> 0,
   inAppendix |-> FALSE, provisions |-> <<>>]

\* A variant that pushes the article whatever its body is.
flushArticleAlways(st) ==
  LET content == TrimBlank(CollapseBlank(st.content))
      emit == st.num # ""
      prov == [article |-> st.num, title |-> st.title, content |-> content,
               provision_ref |-> st.num, order_index |-> st.orderIndex]
  IN  [st EXCEPT !.provisions = IF emit THEN Append(@, prov) ELSE @,
                 !.orderIndex = IF emit THEN @ + 1 ELSE @,
                 !.num = "", !.title = "", !.content = <<>>]

\* flushArticle()
flushArticle(st) ==
  LET content == TrimBlank(CollapseBlank(st.content))
      emit == st.num # "" /\ st.content # <<>> /\ content # <<>>
      prov == [article |-> st.num, title |-> st.title, content |-> content,
               provision_ref |-> st.num, order_index |-> st.orderIndex]
  IN  [st EXCEPT !.provisions = IF emit THEN Append(@, prov) ELSE @,
                 !.orderIndex = IF emit THEN @ + 1 ELSE @,
                 !.num = "", !.title = "", !.content = <<>>]

\* A variant that folds the whole marker line into the body.
ArticleStartKeepsMarker(st, line) ==
  LET m == ArticleMatch(line)
      restOfLine == TrimLine(m.rest)
      started == [flushArticle(st) EXCEPT !.num = m.num, !.inAppendix = FALSE]
  IN  IF restOfLine = <<>> THEN started
      ELSE IF LineLength(restOfLine) < 200 /\ ~EnumeratedItem(restOfLine)
           THEN [started EXCEPT !.title = LineText(restOfLine)]
           ELSE [started EXCEPT !.content = <<line>>]

\* The loop's branch for a line that starts an article: the article before
\* is flushed, and what follows the number is the title when it is shorter
\* than 200 characters and no enumerated item, else the first body line.
ArticleStart(st, line) ==
  LET m == ArticleMatch(line)
      restOfLine == TrimLine(m.rest)
      started == [flushArticle(st) EXCEPT !.num = m.num, !.inAppendix = FALSE]
  IN  IF restOfLine = <<>> THEN started
      ELSE IF LineLength(restOfLine) < 200 /\ ~EnumeratedItem(restOfLine)
           THEN [started EXCEPT !.title = LineText(restOfLine)]
           ELSE [started EXCEPT !.content = <<restOfLine>>]

\* One turn of the loop over the lines.
ParseLine(st, rawLine) ==
  LET line == TrimLine(rawLine)
  IN  IF line = <<>>
      THEN IF st.num # "" /\ st.content # <<>>
           THEN [st EXCEPT !.content = Append(@, <<>>)]
           ELSE st
      ELSE IF APPENDIX_PATTERN(line)
      THEN flushArticle([st EXCEPT !.inAppendix = TRUE])
      ELSE IF st.inAppendix /\ ~ArticleMatch(line).matched
      THEN st
      ELSE IF ArticleMatch(line).matched
      THEN ArticleStart(st, line)
      ELSE IF CHAPTER_PATTERN(line)
      THEN st
      ELSE IF st.num # ""
      THEN [st EXCEPT !.content = Append(@, line)]
      ELSE st

RECURSIVE ParseLines(_, _)
\* The loop over the lines, from the locals st.
ParseLines(st, lines) ==
  IF lines = <<>> THEN st
  ELSE ParseLines(ParseLine(st, lines[1]), Drop(lines, 1))

\* seen.get(article): where the article is in the list (0: nowhere)
SeenAt(deduped, article) ==
  LET at == {k \in 1..Len(deduped) : deduped[k].article = article}
  IN  IF at = {} THEN 0 ELSE CHOOSE k \in at : TRUE

\* A variant that keeps the first occurrence only.
MergeDropsLater(deduped, prov) ==
  IF SeenAt(deduped, prov.article) # 0 THEN deduped ELSE Append(deduped, prov)

\* One turn of the deduplication loop.
Merge(deduped, prov) ==
  LET existing == SeenAt(deduped, prov.article)
  IN  IF existing # 0
      THEN [deduped EXCEPT ![existing].content = @ \o <<<<>>>> \o prov.content]
      ELSE Append(deduped, prov)

RECURSIVE Deduplicate(_, _)
\* The deduplication loop, from the list deduped.
Deduplicate(deduped, provs) ==
  IF provs = <<>> THEN deduped
  ELSE Deduplicate(Merge(deduped, provs[1]), Drop(provs, 1))

\* A variant that leaves the position indices as flushArticle set them.
ReindexKept(deduped) == deduped

\* deduped[i].order_index = i
Reindex(deduped) ==
  [k \in 1..Len(deduped) |-> [deduped[k] EXCEPT !.order_index = k - 1]]

\* What parseRussianText returns from the locals its loop ended with.
ParseResult(st) ==
  Reindex(Deduplicate(<<>>, flushArticle(st).provisions))

\* parseRussianText(text)
parseRussianText(lines) == ParseResult(ParseLines(ParseStart, lines))

\* The lines the input texts are made of.
BlankLine == <<>>
Marker5Title == <<KW, SP, "5", DOT, SP, "Right to privacy">>
Marker6 == <<SP, KW, SP, "6", DOT>>
Marker5Item == <<KW, SP, "5", DOT, SP, "1", DOT, SP, "Everyone">>
MarkerNested == <<KW, SP, "1", DOT, SP, KW, SP, "2", DOT, SP, W200>>
Marker12x1 == <<KW, SP, "12", DOT, "1", SP, "Title">>
BodyLine == <<"Everyone has the right...">>
PartLine == <<"Chast", SP, "1", SP, "nastoyashchey stat'i">>
AppendixLine == <<APP, SP, "1">>
MarkerSentence == <<KW, SP, "2", DOT, SP, "Everyone", DOT>>
InputLines ==
  {BlankLine, Marker5Title, Marker6, Marker5Item, MarkerNested, Marker12x1,
   BodyLine, PartLine, AppendixLine, MarkerSentence}

\* The state of the parts outside the pipeline while the pipeline runs.
ParserIdle == text = <<>> /\ pst = ParseStart /\ parsed = <<>> /\ ppc = "idle"
LimiterIdle == clock = 0 /\ lastRequestTime = 0 /\ calls = <<>>
TimerIdle == attemptTime = -1 /\ timerArmed = FALSE
NoDecode == [phase |-> "idle", url |-> <<>>, contentType |-> <<>>,
             bytes |-> <<>>, body |-> <<>>]
NoDrift == [phase |-> "idle", entries |-> <<>>, results |-> <<>>,
            driftCount |-> 0, errorCount |-> 0, okCount |-> 0,
            exitCode |-> -1]
NoCitation == [phase |-> "idle", given |-> <<>>, formatted |-> <<>>,
               parsed |-> <<>>]
ToolsIdle == dec = NoDecode /\ drift = NoDrift /\ cite = NoCitation

(***************************************************************************)
(* Initial state: a fresh data directory, the process of run 1 starting.   *)
(***************************************************************************)
RequiredIds == {requiredLaws[r] : r \in 1..Len(requiredLaws)}

Init ==
  /\ catalog \in { getFullCensus(m, n) :
                     m \in {"none"} \cup RequiredIds, n \in 0..MaxIngestable }
  /\ limit \in 0..MaxLimit
  /\ skipFetch \in BOOLEAN
  /\ censusOnly \in BOOLEAN
  /\ run = 1
  /\ pc = "main"
  /\ exitCode = -1
  /\ censusFile = "absent"
  /\ euRefsFile = FALSE
  /\ disk = [id \in Ids |-> AbsentFile]
  /\ toProcess = <<>>
  /\ i = 0
  /\ results = <<>>
  /\ successCount = 0
  /\ failCount = 0
  /\ skipCount = 0
  /\ totalProvisions = 0
  /\ provisions = <<>>
  /\ elapsed = AgeCap
  /\ attempt = 0
  /\ fetchResult = NoResult
  /\ report = NoReport
  /\ requestsSent = 0
  /\ sinceLastSend = -1
  /\ firstGap = -1
  /\ lastResponse = NoResponse
  /\ backoffs = <<>>
  /\ fetched = {}
  /\ outcome = NoOutcome
  /\ prevOutcome = NoOutcome
  /\ prevReport = NoReport
  /\ ParserIdle
  /\ LimiterIdle
  /\ TimerIdle
  /\ ToolsIdle

(***************************************************************************)
(* main / runCensus.                                                       *)
(***************************************************************************)
\* runCensus: a required law is missing: process.exit(1), before census.json
\* is written.
CensusValidationFails ==
  /\ pc = "main"
  /\ ~allPresent(catalog)
  /\ pc' = "exited"
  /\ exitCode' = 1
  /\ UNCHANGED <<sideVars, cliVars, run, fileVars, loopVars, provisions, fetchVars,
                 report, histVars>>

\* runCensus: all required laws present: census.json is written; main then
\* ends (--census-only) or enters runIngestion.
RunCensus ==
  /\ pc = "main"
  /\ allPresent(catalog)
  /\ censusFile' = "census"
  /\ IF censusOnly
     THEN pc' = "done" /\ exitCode' = 0
     ELSE pc' = "ingestion" /\ exitCode' = exitCode
  /\ UNCHANGED <<sideVars, cliVars, run, euRefsFile, disk, loopVars, provisions,
                 fetchVars, report, histVars>>

(***************************************************************************)
(* runIngestion.                                                           *)
(***************************************************************************)
\* The prologue of runIngestion: the entries to process and the counters.
BeginIngestion ==
  /\ pc = "ingestion"
  /\ toProcess' = ToProcess(catalog, limit)
  /\ i' = 0
  /\ results' = <<>>
  /\ successCount' = 0
  /\ failCount' = 0
  /\ skipCount' = 0
  /\ totalProvisions' = 0
  /\ pc' = "loop"
  /\ UNCHANGED <<sideVars, cliVars, run, exitCode, fileVars, provisions, fetchVars,
                 report, histVars>>

\* The loop body after `await ingestLaw(entry)` has returned `result`.
RecordResult(result) ==
  /\ results' = Append(results, result)
  /\ IF result.ingested
     THEN /\ successCount' = successCount + 1
          /\ totalProvisions' = totalProvisions + result.provision_count
          /\ UNCHANGED <<failCount, skipCount>>
     ELSE IF IncludesAlready(result.error)
     THEN /\ skipCount' = skipCount + 1
          /\ UNCHANGED <<successCount, failCount, totalProvisions>>
     ELSE /\ failCount' = failCount + 1
          /\ UNCHANGED <<successCount, skipCount, totalProvisions>>
  /\ i' = i + 1
  /\ UNCHANGED toProcess

\* A variant of the catch block that counts nothing.
RecordThrownUncounted(entry, msg) ==
  /\ results' = Append(results, [id |-> entry.id, ingested |-> FALSE,
                                 provision_count |-> 0, error |-> msg])
  /\ i' = i + 1
  /\ UNCHANGED <<toProcess, successCount, failCount, skipCount,
                 totalProvisions>>

\* The catch block of the loop: ingestLaw threw `msg`.
RecordThrown(entry, msg) ==
  /\ results' = Append(results, [id |-> entry.id, ingested |-> FALSE,
                                 provision_count |-> 0, error |-> msg])
  /\ failCount' = failCount + 1
  /\ i' = i + 1
  /\ UNCHANGED <<toProcess, successCount, skipCount, totalProvisions>>

\* What the fetch gave ingestLaw, told from the fetch result alone (history
\* only): no fetch, an exception, a status other than 200, a body of at most
\* 100 characters, a text without articles, or real content.
Cause(fr) ==
  IF fr.kind = "none" THEN "skip_fetch"
  ELSE IF fr.kind = "error" THEN "fetch_error"
  ELSE IF fr.status # 200 THEN "status"
  ELSE IF fr.body.len <= 100 THEN "small"
  ELSE IF fr.body.articles = 0 THEN "empty"
  ELSE "real"

\* A variant that fetches whatever --skip-fetch says.
FetchAllowedAlways(skip) == TRUE

\* ingestLaw: if (!skipFetch), the guard of its one call into the fetcher.
FetchAllowed(skip) == ~skip

\* ingestLaw up to its first await: the resumability check, the
\* classification gate, and (with --skip-fetch) the placeholder.
IngestLawStart ==
  /\ pc = "loop"
  /\ i < Len(toProcess)
  /\ LET entry == toProcess[i + 1]
         file  == disk[entry.id]
     IN  IF AlreadyIngested(file)
         THEN /\ RecordResult([id |-> entry.id, ingested |-> TRUE,
                               provision_count |-> Len(file.provisions),
                               error |-> ""])
              /\ outcome' = [outcome EXCEPT ![entry.id] = "cached"]
              /\ UNCHANGED <<pc, provisions, fetched>>
         ELSE IF ~IsIngestable(entry)
         THEN /\ RecordResult([id |-> entry.id, ingested |-> FALSE,
                               provision_count |-> 0,
                               error |-> "Classification: " \o entry.classification])
              /\ outcome' = [outcome EXCEPT ![entry.id] = "classification"]
              /\ UNCHANGED <<pc, provisions, fetched>>
         ELSE IF ~FetchAllowed(skipFetch)
         THEN /\ provisions' = FinalProvisions(entry, <<>>)
              /\ pc' = "persist"
              /\ UNCHANGED <<loopVars, fetched, outcome>>
         ELSE /\ fetched' = fetched \cup {entry.id}
              /\ pc' = "rateLimit"
              /\ UNCHANGED <<loopVars, provisions, outcome>>
  /\ UNCHANGED <<sideVars, cliVars, run, exitCode, fileVars, fetchVars, report,
                 requestsSent, sinceLastSend, firstGap, lastResponse, backoffs,
                 prevOutcome, prevReport>>

(***************************************************************************)
(* fetchWithRateLimit.                                                     *)
(***************************************************************************)
\* An age `d` ms later (-1: there is no time to count from).
Aged(age, d) == IF age < 0 THEN -1 ELSE Min(age + d, AgeCap)

\* `d` ms pass: a response is awaited, a backoff is slept.
Pass(d) ==
  /\ elapsed' = Aged(elapsed, d)
  /\ sinceLastSend' = Aged(sinceLastSend, d)

\* rateLimit(): sleep until MIN_DELAY_MS have passed since lastRequestTime,
\* then stamp lastRequestTime.  The retry loop starts at attempt 0.
RateLimit ==
  /\ pc = "rateLimit"
  /\ sinceLastSend' = IF elapsed < MIN_DELAY_MS
                      THEN Aged(sinceLastSend, MIN_DELAY_MS - elapsed)
                      ELSE sinceLastSend
  /\ elapsed' = 0
  /\ attempt' = 0
  /\ requestsSent' = 0
  /\ backoffs' = <<>>
  /\ lastResponse' = NoResponse
  /\ pc' = "attempt"
  /\ UNCHANGED <<sideVars, cliVars, run, exitCode, fileVars, loopVars, provisions,
                 fetchResult, report, firstGap, fetched, outcome, prevOutcome,
                 prevReport>>

\* One iteration of the retry loop sends its request: fetch(url, ...).
SendRequest ==
  /\ pc = "attempt"
  /\ requestsSent' = requestsSent + 1
  /\ sinceLastSend' = 0
  /\ firstGap' = IF attempt = 0 THEN sinceLastSend ELSE firstGap
  /\ pc' = "inflight"
  /\ UNCHANGED <<sideVars, cliVars, run, exitCode, fileVars, loopVars, provisions,
                 fetchVars, report, lastResponse, backoffs, fetched, outcome,
                 prevOutcome, prevReport>>

\* The continuation of ingestLaw once fetchPravoLawText has settled with
\* `fr`: extraction, placeholder; the seed is then ready to be written.
AfterFetch(fr) ==
  /\ fetchResult' = fr
  /\ provisions' =
       FinalProvisions(toProcess[i + 1],
                       IF fr.kind = "result" THEN Extract(fr) ELSE <<>>)
  /\ pc' = "persist"

\* The request is answered with a response.
ReceiveResponse ==
  /\ pc = "inflight"
  /\ \E r \in Responses, lat \in Latencies :
       /\ lastResponse' = [kind |-> "response", status |-> r.status,
                           body |-> r.body, serial |-> attempt]
       /\ IF Retryable(r.status) /\ attempt < maxRetries
          THEN /\ Pass(lat + HttpBackoff(attempt))
               /\ backoffs' = Append(backoffs, HttpBackoff(attempt))
               /\ attempt' = attempt + 1
               /\ pc' = "attempt"
               /\ UNCHANGED <<fetchResult, provisions>>
          ELSE /\ Pass(lat)
               /\ AfterFetch([kind |-> "result", status |-> r.status,
                              body |-> r.body, serial |-> attempt])
               /\ UNCHANGED <<attempt, backoffs>>
  /\ UNCHANGED <<sideVars, cliVars, run, exitCode, fileVars, loopVars, report,
                 requestsSent, firstGap, fetched, outcome, prevOutcome,
                 prevReport>>

\* The request fails with an exception (connection failure, abort).
NetworkError ==
  /\ pc = "inflight"
  /\ \E lat \in Latencies :
       /\ lastResponse' = [kind |-> "exception", status |-> 0,
                           body |-> ErrorBody, serial |-> attempt]
       /\ IF attempt < maxRetries
          THEN /\ Pass(lat + NetBackoff(attempt))
               /\ backoffs' = Append(backoffs, NetBackoff(attempt))
               /\ attempt' = attempt + 1
               /\ pc' = "attempt"
               /\ UNCHANGED <<fetchResult, provisions>>
          ELSE /\ Pass(lat)
               /\ AfterFetch([kind |-> "error", status |-> 0,
                              body |-> ErrorBody, serial |-> attempt])
               /\ UNCHANGED <<attempt, backoffs>>
  /\ UNCHANGED <<sideVars, cliVars, run, exitCode, fileVars, loopVars, report,
                 requestsSent, firstGap, fetched, outcome, prevOutcome,
                 prevReport>>

(***************************************************************************)
(* ingestLaw: writing the seed file.                                       *)
(***************************************************************************)
\* What ends with the entry: the call's locals and the per-call history.
EndOfEntry ==
  /\ provisions' = <<>>
  /\ fetchResult' = NoResult
  /\ attempt' = 0
  /\ requestsSent' = 0
  /\ firstGap' = -1
  /\ lastResponse' = NoResponse
  /\ backoffs' = <<>>
  /\ pc' = "loop"

\* fs.writeFileSync(seedPath, ...) succeeds; ingestLaw returns ingested: true.
WriteSeed ==
  /\ pc = "persist"
  /\ LET entry == toProcess[i + 1]
     IN  /\ disk' = [disk EXCEPT ![entry.id] = BuildSeed(entry, provisions)]
         /\ RecordResult([id |-> entry.id, ingested |-> TRUE,
                          provision_count |-> Len(provisions), error |-> ""])
         /\ outcome' = [outcome EXCEPT ![entry.id] = Cause(fetchResult)]
  /\ EndOfEntry
  /\ UNCHANGED <<sideVars, cliVars, run, exitCode, censusFile, euRefsFile, elapsed,
                 report, sinceLastSend, fetched, prevOutcome, prevReport>>

\* Variant of WriteSeedThrows: the loop body has no try/catch, so the error
\* leaves runIngestion and main().catch ends the process.
WriteSeedThrowsUncaught ==
  /\ pc = "persist"
  /\ LET entry == toProcess[i + 1]
     IN  \E f \in {disk[entry.id], CorruptFile} :
            disk' = [disk EXCEPT ![entry.id] = f]
  /\ pc' = "exited"
  /\ exitCode' = 1
  /\ UNCHANGED <<sideVars, cliVars, run, censusFile, euRefsFile, loopVars, provisions,
                 fetchVars, report, histVars>>

\* fs.writeFileSync(seedPath, ...) throws: the file is left as it was (the
\* open failed) or truncated (the write failed); the loop's catch block
\* records the failure.
WriteSeedThrows ==
  /\ pc = "persist"
  /\ LET entry == toProcess[i + 1]
     IN  /\ \E f \in {disk[entry.id], CorruptFile} :
               disk' = [disk EXCEPT ![entry.id] = f]
         /\ RecordThrown(entry, "ENOSPC: no space left on device, write")
         /\ outcome' = [outcome EXCEPT ![entry.id] = "write_failed"]
  /\ EndOfEntry
  /\ UNCHANGED <<sideVars, cliVars, run, exitCode, censusFile, euRefsFile, elapsed,
                 report, sinceLastSend, fetched, prevOutcome, prevReport>>

(***************************************************************************)
(* runIngestion after the loop.                                            *)
(***************************************************************************)
HasEuReferences == \E j \in 1..Len(catalog) : catalog[j].eu

\* The summary runIngestion prints and the `ingestion` object it writes.
Summary ==
  LET cov == CoveragePct(successCount, Len(toProcess))
  IN  [ total_processed  |-> Len(toProcess),
        success_count    |-> successCount,
        fail_count       |-> failCount,
        skip_count       |-> skipCount,
        total_provisions |-> totalProvisions,
        failed           |-> IF successCount # Len(toProcess) /\ failCount > 0
                             THEN FailedList(results) ELSE <<>>,
        coverage_nan     |-> cov.nan,
        coverage_tenths  |-> cov.tenths ]

\* The loop is over: writeEuReferences, the summary, the census update.
FinishIngestion ==
  /\ pc = "loop"
  /\ i = Len(toProcess)
  /\ euRefsFile' = (euRefsFile \/ HasEuReferences)
  /\ report' = Summary
  /\ censusFile' = "updated"
  /\ pc' = "done"
  /\ exitCode' = 0
  /\ UNCHANGED <<sideVars, cliVars, run, disk, loopVars, provisions, fetchVars,
                 histVars>>

\* writeEuReferences throws on its write: the error leaves runIngestion and
\* main, and main().catch ends the process with status 1.
WriteEuReferencesThrows ==
  /\ pc = "loop"
  /\ i = Len(toProcess)
  /\ HasEuReferences
  /\ pc' = "exited"
  /\ exitCode' = 1
  /\ UNCHANGED <<sideVars, cliVars, run, fileVars, loopVars, provisions, fetchVars,
                 report, histVars>>

\* The census update throws (reading or writing census.json), after the
\* summary was printed: main().catch ends the process with status 1.
CensusUpdateThrows ==
  /\ pc = "loop"
  /\ i = Len(toProcess)
  /\ euRefsFile' = (euRefsFile \/ HasEuReferences)
  /\ report' = Summary
  /\ pc' = "exited"
  /\ exitCode' = 1
  /\ UNCHANGED <<sideVars, cliVars, run, censusFile, disk, loopVars, provisions,
                 fetchVars, histVars>>

(***************************************************************************)
(* The pipeline is run again, with the same arguments, on the same data    *)
(* directory: a new process, so module and function state start afresh.    *)
(***************************************************************************)
StartNextRun ==
  /\ pc \in {"done", "exited"}
  /\ run < MaxRuns
  /\ run' = run + 1
  /\ pc' = "main"
  /\ exitCode' = -1
  /\ toProcess' = <<>>
  /\ i' = 0
  /\ results' = <<>>
  /\ successCount' = 0
  /\ failCount' = 0
  /\ skipCount' = 0
  /\ totalProvisions' = 0
  /\ elapsed' = AgeCap
  /\ report' = NoReport
  /\ sinceLastSend' = -1
  /\ fetched' = {}
  /\ outcome' = NoOutcome
  /\ prevOutcome' = outcome
  /\ prevReport' = report
  /\ UNCHANGED <<sideVars, cliVars, fileVars, provisions, attempt, fetchResult,
                 requestsSent, firstGap, lastResponse, backoffs>>

Next ==
  \/ CensusValidationFails
  \/ RunCensus
  \/ BeginIngestion
  \/ IngestLawStart
  \/ RateLimit
  \/ SendRequest
  \/ ReceiveResponse
  \/ NetworkError
  \/ WriteSeed
  \/ WriteSeedThrows
  \/ FinishIngestion
  \/ WriteEuReferencesThrows
  \/ CensusUpdateThrows
  \/ StartNextRun

Spec == Init /\ [][Next]_vars

(***************************************************************************)
(* The pipeline when its process can be terminated from outside (SIGKILL,  *)
(* power loss) at any point of a run.  The seed is written by              *)
(* fs.writeFileSync(seedPath, ...) on the final path: the file is opened   *)
(* with truncation and filled by write calls, so a process that ends       *)
(* inside the call leaves the file as it was before the call or with a     *)
(* part of the new content.                                                *)
(***************************************************************************)
ProcessKilled ==
  /\ pc \in {"main", "ingestion", "loop", "rateLimit", "attempt", "inflight",
             "persist"}
  /\ IF pc = "persist"
     THEN LET entry == toProcess[i + 1]
          IN  /\ \E f \in {disk[entry.id], CorruptFile} :
                    disk' = [disk EXCEPT ![entry.id] = f]
              /\ outcome' = [outcome EXCEPT ![entry.id] = "killed"]
     ELSE UNCHANGED <<disk, outcome>>
  /\ pc' = "exited"
  /\ exitCode' = 137
  \* the memory of the process is gone
  /\ toProcess' = <<>>
  /\ i' = 0
  /\ results' = <<>>
  /\ successCount' = 0
  /\ failCount' = 0
  /\ skipCount' = 0
  /\ totalProvisions' = 0
  /\ provisions' = <<>>
  /\ elapsed' = AgeCap
  /\ attempt' = 0
  /\ fetchResult' = NoResult
  /\ report' = NoReport
  /\ requestsSent' = 0
  /\ sinceLastSend' = -1
  /\ firstGap' = -1
  /\ lastResponse' = NoResponse
  /\ backoffs' = <<>>
  /\ UNCHANGED <<sideVars, cliVars, run, censusFile, euRefsFile, fetched,
                 prevOutcome, prevReport>>

CrashNext ==
  \/ Next
  \/ ProcessKilled

CrashSpec == Init /\ [][CrashNext]_vars

(***************************************************************************)
(* parseRussianText on its own: the lines of a text are read one by one,   *)
(* then the text ends.                                                     *)
(***************************************************************************)
pipelineVars == <<cliVars, run, pc, exitCode, fileVars, loopVars, provisions,
                  fetchVars, report, histVars>>

\* No pipeline process is running.
PipelineIdle ==
  /\ catalog = <<>>
  /\ limit = 0
  /\ skipFetch = FALSE
  /\ censusOnly = FALSE
  /\ run = 0
  /\ pc = "idle"
  /\ exitCode = -1
  /\ censusFile = "absent"
  /\ euRefsFile = FALSE
  /\ disk = [id \in Ids |-> AbsentFile]
  /\ toProcess = <<>>
  /\ i = 0
  /\ results = <<>>
  /\ successCount = 0
  /\ failCount = 0
  /\ skipCount = 0
  /\ totalProvisions = 0
  /\ provisions = <<>>
  /\ elapsed = AgeCap
  /\ attempt = 0
  /\ fetchResult = NoResult
  /\ report = NoReport
  /\ requestsSent = 0
  /\ sinceLastSend = -1
  /\ firstGap = -1
  /\ lastResponse = NoResponse
  /\ backoffs = <<>>
  /\ fetched = {}
  /\ outcome = NoOutcome
  /\ prevOutcome = NoOutcome
  /\ prevReport = NoReport

ParserInit ==
  /\ PipelineIdle
  /\ LimiterIdle
  /\ TimerIdle
  /\ ToolsIdle
  /\ text = <<>>
  /\ pst = ParseStart
  /\ parsed = <<>>
  /\ ppc = "lines"

\* The loop reads the next line of the text.
ReadLine ==
  /\ ppc = "lines"
  /\ Len(text) < MaxLines
  /\ \E line \in InputLines :
       /\ text' = Append(text, line)
       /\ pst' = ParseLine(pst, line)
  /\ UNCHANGED <<parsed, ppc, pipelineVars, limiterVars, timerVars,
                 toolVars>>

\* The text has no further line: the last flushArticle(), the
\* deduplication, the position indices, return.
EndOfText ==
  /\ ppc = "lines"
  /\ pst' = flushArticle(pst)
  /\ parsed' = ParseResult(pst)
  /\ ppc' = "done"
  /\ UNCHANGED <<text, pipelineVars, limiterVars, timerVars,
                 toolVars>>

ParserNext ==
  \/ ReadLine
  \/ EndOfText

ParserSpec == ParserInit /\ [][ParserNext]_vars

(***************************************************************************)
(* fetchWithRateLimit called by several tasks of one process (calls that   *)
(* are not awaited one after the other).  rateLimit() reads                *)
(* lastRequestTime, may sleep, and stamps lastRequestTime after the sleep; *)
(* what follows the first request of a call neither reads nor writes       *)
(* lastRequestTime.  The calls are alike, so call c+1 starts after call c  *)
(* has started.                                                            *)
(***************************************************************************)
\* Number of calls.
NumCalls == 3
\* Date.now() when the first call starts (lastRequestTime starts at 0).
ProcessStart == 5000
\* The clock is followed for this many ms.
Horizon == 1500
\* The steps by which the clock advances between events.
TickSteps == {100, 900}

NotStarted == [pc |-> "notStarted", wakeAt |-> -1, sentAt |-> -1]

LimiterInit ==
  /\ PipelineIdle
  /\ ParserIdle
  /\ TimerIdle
  /\ ToolsIdle
  /\ clock = ProcessStart
  /\ lastRequestTime = 0
  /\ calls = [c \in 1..NumCalls |-> NotStarted]

\* The request of call c is sent now: lastRequestTime = Date.now() and, the
\* await of rateLimit() being over, fetch(url, ...).
StampAndSend(c) ==
  /\ lastRequestTime' = clock
  /\ calls' = [calls EXCEPT ![c] =
                 [pc |-> "inflight", wakeAt |-> -1, sentAt |-> clock]]

\* Call c enters rateLimit(): it reads the clock and lastRequestTime and
\* either starts to sleep for the remainder or goes on at once.
CallRateLimit(c) ==
  /\ calls[c].pc = "notStarted"
  /\ c > 1 => calls[c - 1].pc # "notStarted"
  /\ LET sinceLast == clock - lastRequestTime
     IN  IF sinceLast < MIN_DELAY_MS
         THEN /\ calls' = [calls EXCEPT ![c] =
                             [pc |-> "sleeping",
                              wakeAt |-> clock + (MIN_DELAY_MS - sinceLast),
                              sentAt |-> -1]]
              /\ UNCHANGED lastRequestTime
         ELSE StampAndSend(c)
  /\ UNCHANGED <<clock, pipelineVars, parserVars, timerVars,
                 toolVars>>

\* The sleep of call c is over.
SleepEnds(c) ==
  /\ calls[c].pc = "sleeping"
  /\ clock >= calls[c].wakeAt
  /\ StampAndSend(c)
  /\ UNCHANGED <<clock, pipelineVars, parserVars, timerVars,
                 toolVars>>

\* Call c settles (it returns or throws).
CallSettles(c) ==
  /\ calls[c].pc = "inflight"
  /\ calls' = [calls EXCEPT ![c].pc = "settled"]
  /\ UNCHANGED <<clock, lastRequestTime, pipelineVars, parserVars, timerVars,
                 toolVars>>

\* Time passes, up to the moment the next sleep ends.
TimePasses ==
  /\ \E d \in TickSteps :
       /\ clock + d <= ProcessStart + Horizon
       /\ \A c \in 1..NumCalls :
            calls[c].pc = "sleeping" => clock + d <= calls[c].wakeAt
       /\ clock' = clock + d
  /\ UNCHANGED <<lastRequestTime, calls, pipelineVars, parserVars, timerVars,
                 toolVars>>

LimiterNext ==
  \/ \E c \in 1..NumCalls : CallRateLimit(c)
  \/ \E c \in 1..NumCalls : SleepEnds(c)
  \/ \E c \in 1..NumCalls : CallSettles(c)
  \/ TimePasses

LimiterSpec == LimiterInit /\ [][LimiterNext]_vars

(***************************************************************************)
(* One call of fetchWithRateLimit with the phases of an attempt: the abort *)
(* timer is set, fetch() is awaited, the timer is cleared as soon as       *)
(* fetch() has resolved with the response (status and headers), and only   *)
(* then is the body read (response.arrayBuffer() or response.text()).      *)
(***************************************************************************)
REQUEST_TIMEOUT_MS == 60000

\* Time the reading of a response body takes, in ms.
BodyReadTimes == {50, 90000}

FetchInit ==
  /\ PipelineIdle
  /\ ParserIdle
  /\ LimiterIdle
  /\ TimerIdle
  /\ ToolsIdle

\* A caller calls fetchWithRateLimit(url).
FetchCalled ==
  /\ pc = "idle"
  /\ pc' = "rateLimit"
  /\ UNCHANGED <<sideVars, cliVars, run, exitCode, fileVars, loopVars,
                 provisions, fetchVars, report, histVars>>

\* One iteration of the retry loop begins: the timer is set and the request
\* is sent.
AttemptStarts ==
  /\ pc = "attempt"
  /\ requestsSent' = requestsSent + 1
  /\ sinceLastSend' = 0
  /\ firstGap' = IF attempt = 0 THEN sinceLastSend ELSE firstGap
  /\ attemptTime' = 0
  /\ timerArmed' = TRUE
  /\ pc' = "fetching"
  /\ UNCHANGED <<toolVars, parserVars, limiterVars, cliVars, run, exitCode, fileVars,
                 loopVars, provisions, fetchVars, report, lastResponse,
                 backoffs, fetched, outcome, prevOutcome, prevReport>>

\* A variant of the catch block that retries once more after the last
\* attempt.
CatchBlockOneMore(cause, at, dt) ==
  /\ timerArmed' = FALSE
  /\ attemptTime' = at
  /\ lastResponse' = [kind |-> cause, status |-> 0, body |-> ErrorBody,
                      serial |-> attempt]
  /\ IF attempt <= maxRetries
     THEN /\ Pass(dt + NetBackoff(attempt))
          /\ backoffs' = Append(backoffs, NetBackoff(attempt))
          /\ attempt' = attempt + 1
          /\ pc' = "attempt"
          /\ UNCHANGED fetchResult
     ELSE /\ Pass(dt)
          /\ fetchResult' = [kind |-> "error", status |-> 0,
                             body |-> ErrorBody, serial |-> attempt]
          /\ pc' = "thrown"
          /\ UNCHANGED <<attempt, backoffs>>

\* The catch block of the retry loop, entered `at` ms into the attempt and
\* `dt` ms after the step before: the timer is cleared; the call sleeps the
\* backoff and goes to the next attempt, or rethrows after the last one.
CatchBlock(cause, at, dt) ==
  /\ timerArmed' = FALSE
  /\ attemptTime' = at
  /\ lastResponse' = [kind |-> cause, status |-> 0, body |-> ErrorBody,
                      serial |-> attempt]
  /\ IF attempt < maxRetries
     THEN /\ Pass(dt + NetBackoff(attempt))
          /\ backoffs' = Append(backoffs, NetBackoff(attempt))
          /\ attempt' = attempt + 1
          /\ pc' = "attempt"
          /\ UNCHANGED fetchResult
     ELSE /\ Pass(dt)
          /\ fetchResult' = [kind |-> "error", status |-> 0,
                             body |-> ErrorBody, serial |-> attempt]
          /\ pc' = "thrown"
          /\ UNCHANGED <<attempt, backoffs>>

\* fetch() resolves with the response before the timer fires: the timer is
\* cleared; a retryable status with attempts left is slept on and retried,
\* any other response has its body read next.
ResponseArrives ==
  /\ pc = "fetching"
  /\ \E r \in Responses, lat \in Latencies :
       /\ lat < REQUEST_TIMEOUT_MS
       /\ attemptTime' = lat
       /\ timerArmed' = FALSE
       /\ lastResponse' = [kind |-> "response", status |-> r.status,
                           body |-> r.body, serial |-> attempt]
       /\ IF Retryable(r.status) /\ attempt < maxRetries
          THEN /\ Pass(lat + HttpBackoff(attempt))
               /\ backoffs' = Append(backoffs, HttpBackoff(attempt))
               /\ attempt' = attempt + 1
               /\ pc' = "attempt"
          ELSE /\ Pass(lat)
               /\ pc' = "body"
               /\ UNCHANGED <<attempt, backoffs>>
  /\ UNCHANGED <<toolVars, parserVars, limiterVars, cliVars, run, exitCode, fileVars,
                 loopVars, provisions, fetchResult, report, requestsSent,
                 firstGap, fetched, outcome, prevOutcome, prevReport>>

\* No response within REQUEST_TIMEOUT_MS: the timer fires,
\* controller.abort() makes fetch() reject, the catch block runs.
TimerFires ==
  /\ pc = "fetching"
  /\ timerArmed
  /\ CatchBlock("timeout", REQUEST_TIMEOUT_MS, REQUEST_TIMEOUT_MS)
  /\ UNCHANGED <<toolVars, parserVars, limiterVars, cliVars, run, exitCode, fileVars,
                 loopVars, provisions, report, requestsSent, firstGap,
                 fetched, outcome, prevOutcome, prevReport>>

\* fetch() rejects before the timer fires (connection refused or reset).
ConnectionFails ==
  /\ pc = "fetching"
  /\ \E lat \in Latencies :
       lat < REQUEST_TIMEOUT_MS /\ CatchBlock("exception", lat, lat)
  /\ UNCHANGED <<toolVars, parserVars, limiterVars, cliVars, run, exitCode, fileVars,
                 loopVars, provisions, report, requestsSent, firstGap,
                 fetched, outcome, prevOutcome, prevReport>>

\* The body is read to its end and decoded; the call returns the result.
\* No timer is pending while the body is read.
BodyRead ==
  /\ pc = "body"
  /\ \E d \in BodyReadTimes :
       /\ attemptTime' = attemptTime + d
       /\ Pass(d)
  /\ fetchResult' = [kind |-> "result", status |-> lastResponse.status,
                     body |-> lastResponse.body, serial |-> attempt]
  /\ pc' = "returned"
  /\ UNCHANGED <<toolVars, parserVars, limiterVars, timerArmed, cliVars, run, exitCode,
                 fileVars, loopVars, provisions, attempt, report,
                 requestsSent, firstGap, lastResponse, backoffs, fetched,
                 outcome, prevOutcome, prevReport>>

\* Reading the body rejects (the connection is lost in the middle of the
\* body): the await is inside the try, so the catch block runs.
BodyReadFails ==
  /\ pc = "body"
  /\ \E d \in BodyReadTimes : CatchBlock("body_error", attemptTime + d, d)
  /\ UNCHANGED <<toolVars, parserVars, limiterVars, cliVars, run, exitCode, fileVars,
                 loopVars, provisions, report, requestsSent, firstGap,
                 fetched, outcome, prevOutcome, prevReport>>

FetchNext ==
  \/ FetchCalled
  \/ RateLimit
  \/ AttemptStarts
  \/ ResponseArrives
  \/ TimerFires
  \/ ConnectionFails
  \/ BodyRead
  \/ BodyReadFails

FetchSpec == FetchInit /\ [][FetchNext]_vars

\* The call when every await of it settles: fetch() resolves, rejects or is
\* aborted by the timer, the reading of a body ends or fails, and the
\* timers of rateLimit() and of the backoffs run out.
FetchLiveSpec == FetchSpec /\ WF_vars(FetchNext)

(***************************************************************************)
(* fetchWithRateLimit: the decoding of a response body.  A URL and a       *)
(* content type are sequences of atoms, cut so that the strings searched   *)
(* for by includes() are whole atoms; a body is a sequence of bytes and a  *)
(* decoded body the sequence of its code points.                           *)
(***************************************************************************)
PravoHost == "pravo.gov.ru"

Urls ==
  { <<"http://", PravoHost, "/proxy/ips/?savetext=&nd=102030&page=all">>,
    <<"http://", "publication.", PravoHost, "/api/Documents">>,
    <<"https://", "example.org", "/documents?from=", PravoHost>>,
    <<"https://", "example.org", "/law.txt">> }

ContentTypes ==
  { <<>>,
    <<"application/x-download">>,
    <<"text/html; charset=", "windows-1251">>,
    <<"text/plain; charset=", "cp1251">>,
    <<"text/html; charset=", "Windows-1251">>,
    <<"text/html; charset=", "utf-8">> }

\* Bodies: "A"; the bytes D1 F2 (two Cyrillic letters in windows-1251, no
\* valid UTF-8); the bytes D0 A1 (one Cyrillic letter in UTF-8, two other
\* letters in windows-1251).
ByteBodies == { <<65>>, <<209, 242>>, <<208, 161>>, <<65, 209>> }

\* String.prototype.includes, for a string that is one atom.
Includes(s, atom) == \E k \in 1..Len(s) : s[k] = atom

\* Variant of needsWin1251: the host test alone.
isPravoOnly(url, contentType) == Includes(url, PravoHost)

\* const needsWin1251 = isPravo || contentType.includes('windows-1251')
\*                              || contentType.includes('cp1251')
needsWin1251(url, contentType) ==
  \/ Includes(url, PravoHost)
  \/ Includes(contentType, "windows-1251")
  \/ Includes(contentType, "cp1251")

\* The code point of one byte in windows-1251, for the bytes of the bodies:
\* ASCII as it is, C0..FF the letters from U+0410 on, A1 is U+040E.
Win1251Char(b) ==
  IF b < 128 THEN b ELSE IF b >= 192 THEN 1040 + (b - 192) ELSE 1038

\* new TextDecoder('windows-1251').decode(buffer): byte by byte.
DecodeWin1251(bytes) == [k \in 1..Len(bytes) |-> Win1251Char(bytes[k])]

\* U+FFFD, what a UTF-8 decoder puts for a malformed sequence.
ReplacementChar == 65533

RECURSIVE DecodeUtf8(_)
\* response.text(): UTF-8 of one- and two-byte sequences; a byte that
\* starts no well-formed sequence gives U+FFFD and decoding goes on with the
\* next byte.  (No body of the model holds a longer well-formed sequence.)
DecodeUtf8(bytes) ==
  IF bytes = <<>> THEN <<>>
  ELSE IF bytes[1] < 128
       THEN <<bytes[1]>> \o DecodeUtf8(Drop(bytes, 1))
  ELSE IF /\ bytes[1] \in 194..223
          /\ Len(bytes) >= 2
          /\ bytes[2] \in 128..191
       THEN <<(bytes[1] - 192) * 64 + (bytes[2] - 128)>>
              \o DecodeUtf8(Drop(bytes, 2))
  ELSE <<ReplacementChar>> \o DecodeUtf8(Drop(bytes, 1))

DecodeInit ==
  /\ PipelineIdle
  /\ ParserIdle
  /\ LimiterIdle
  /\ TimerIdle
  /\ ToolsIdle

\* fetch() has resolved with a response to the request of `url`.
ResponseReceived ==
  /\ dec.phase = "idle"
  /\ \E u \in Urls, ct \in ContentTypes, b \in ByteBodies :
       dec' = [phase |-> "received", url |-> u, contentType |-> ct,
               bytes |-> b, body |-> <<>>]
  /\ UNCHANGED <<drift, cite, pipelineVars, parserVars, limiterVars,
                 timerVars>>

\* The body is decoded, once, before the result is returned.
DecodeBody ==
  /\ dec.phase = "received"
  /\ dec' = [dec EXCEPT
               !.phase = "decoded",
               !.body = IF needsWin1251(dec.url, dec.contentType)
                        THEN DecodeWin1251(dec.bytes)
                        ELSE DecodeUtf8(dec.bytes)]
  /\ UNCHANGED <<drift, cite, pipelineVars, parserVars, limiterVars,
                 timerVars>>

DecodeNext ==
  \/ ResponseReceived
  \/ DecodeBody

DecodeSpec == DecodeInit /\ [][DecodeNext]_vars

(***************************************************************************)
(* drift-detect.ts: main.  A provision text is a sequence of atoms: words  *)
(* and runs of white space.  sha256 is taken to be free of collisions: the *)
(* hash of a text is the text, tagged.                                     *)
(***************************************************************************)
\* Largest number of entries of golden-hashes.json.
MaxEntries == 3

WhiteSpace == {" ", "  ", "\n"}

\* toLowerCase() of one atom
LowerCase(atom) ==
  IF atom = "Article" THEN "article"
  ELSE IF atom = "Text" THEN "text"
  ELSE atom

RECURSIVE CollapseWs(_)
\* .replace(/\s+/g, ' ')
CollapseWs(t) ==
  IF t = <<>> THEN <<>>
  ELSE IF t[1] \in WhiteSpace
       THEN IF Len(t) >= 2 /\ t[2] \in WhiteSpace
            THEN CollapseWs(Drop(t, 1))
            ELSE <<" ">> \o CollapseWs(Drop(t, 1))
       ELSE <<t[1]>> \o CollapseWs(Drop(t, 1))

\* normalizeText(text): text.replace(/\s+/g, ' ').trim().toLowerCase()
normalizeText(t) ==
  LET trimmed == TrimLine(CollapseWs(t))
  IN  [k \in 1..Len(trimmed) |-> LowerCase(trimmed[k])]

\* sha256(text)
sha256(t) == [sha256 |-> t]

\* What the query for the provision of an entry gives: no row, an
\* exception, or a row with its content.
Rows ==
  { [kind |-> "missing", content |-> <<>>],
    [kind |-> "throws",  content |-> <<>>],
    [kind |-> "row", content |-> <<"Article", "  ", "Text", "\n">>],
    [kind |-> "row", content |-> <<"article", " ", "text", " ", "changed">>] }

\* The sha256 field of every entry of golden-hashes.json.
GoldenHash == sha256(<<"article", " ", "text">>)

\* Variant of ExitStatus: drift is looked at before errors.
ExitStatusDriftFirst(errorCount, driftCount) ==
  IF driftCount > 0 THEN 2 ELSE IF errorCount > 0 THEN 1 ELSE 0

\* main: the exit status after the loop.
ExitStatus(errorCount, driftCount) ==
  IF errorCount > 0 THEN 1 ELSE IF driftCount > 0 THEN 2 ELSE 0

DriftInit ==
  /\ PipelineIdle
  /\ ParserIdle
  /\ LimiterIdle
  /\ TimerIdle
  /\ ToolsIdle

\* main starts: the hashes file is loaded and the database opened; what the
\* database holds for each entry is fixed from here on.
DriftStart ==
  /\ drift.phase = "idle"
  /\ \E n \in 0..MaxEntries :
       \E rows \in [1..n -> Rows] :
         drift' = [drift EXCEPT !.phase = "loop", !.entries = rows]
  /\ UNCHANGED <<dec, cite, pipelineVars, parserVars, limiterVars, timerVars>>

\* One turn of the loop over the entries.
CheckEntry ==
  /\ drift.phase = "loop"
  /\ Len(drift.results) < Len(drift.entries)
  /\ LET row == drift.entries[Len(drift.results) + 1]
         status ==
           IF row.kind \in {"missing", "throws"} THEN "ERROR"
           ELSE IF sha256(normalizeText(row.content)) = GoldenHash THEN "OK"
           ELSE "DRIFT"
     IN  drift' = [drift EXCEPT
                     !.results = Append(@, status),
                     !.errorCount = IF status = "ERROR" THEN @ + 1 ELSE @,
                     !.okCount = IF status = "OK" THEN @ + 1 ELSE @,
                     !.driftCount = IF status = "DRIFT" THEN @ + 1 ELSE @]
  /\ UNCHANGED <<dec, cite, pipelineVars, parserVars, limiterVars, timerVars>>

\* The loop is over: the summary and process.exit.
DriftExit ==
  /\ drift.phase = "loop"
  /\ Len(drift.results) = Len(drift.entries)
  /\ drift' = [drift EXCEPT
                 !.phase = "exited",
                 !.exitCode = ExitStatus(drift.errorCount, drift.driftCount)]
  /\ UNCHANGED <<dec, cite, pipelineVars, parserVars, limiterVars, timerVars>>

DriftNext ==
  \/ DriftStart
  \/ CheckEntry
  \/ DriftExit

DriftSpec == DriftInit /\ [][DriftNext]_vars

(***************************************************************************)
(* citations.ts: formatCitation(c, 'full') and parseCitation.  A citation  *)
(* string is a sequence of atoms: words, runs of digits, one blank, one    *)
(* period, one hyphen.  The Cyrillic words are written in Latin letters:   *)
(* "Federalnyy konstitutsionnyy zakon", "ot", "Ukaz Prezidenta",           *)
(* "Postanovlenie Pravitelstva", "kodeks", "No" for the number sign.       *)
(***************************************************************************)
CitationTypes ==
  {"federal_law", "federal_constitutional_law", "presidential_decree",
   "government_resolution"}

\* Runs of digits.
DigitRuns == {"2006", "2017", "07", "7", "27", "12", "05", "152", "683"}

\* Dates of a citation: ISO YYYY-MM-DD, a date with a one-digit month, and
\* no date.
CitationDates ==
  { <<"2006", "-", "07", "-", "27">>,
    <<"2017", "-", "12", "-", "05">>,
    <<"2006", "-", "7", "-", "27">>,
    <<>> }

\* Numbers of a citation: without white space, with a blank inside, none.
CitationNumbers ==
  { <<"152", "-", "FZ">>, <<"683">>, <<"152", " ", "FZ">>, <<>> }

\* The words a full citation of each type begins with.
KeywordsOf(type) ==
  IF type = "federal_law" THEN <<"Federalnyy", " ", "zakon">>
  ELSE IF type = "federal_constitutional_law"
       THEN <<"Federalnyy", " ", "konstitutsionnyy", " ", "zakon">>
  ELSE IF type = "presidential_decree" THEN <<"Ukaz", " ", "Prezidenta">>
  ELSE <<"Postanovlenie", " ", "Pravitelstva">>

\* formatIsoDateToRussian: isoDate.split('-'), then dd.mm.yyyy
formatIsoDateToRussian(isoDate) ==
  <<isoDate[5], ".", isoDate[3], ".", isoDate[1]>>

\* formatFull, for the four types of law
formatFull(type, c) ==
  LET datePart == IF c.date # <<>>
                  THEN <<" ", "ot", " ">> \o formatIsoDateToRussian(c.date)
                  ELSE <<>>
      numberPart == IF c.number # <<>>
                    THEN <<" ", "No", " ">> \o c.number
                    ELSE <<>>
  IN  KeywordsOf(type) \o datePart \o numberPart

\* mm.padStart(2, '0')
PadStart2(digits) == IF Len(digits) < 2 THEN "0" \o digits ELSE digits

\* Variant of convertRussianDate: day and month change places.
convertRussianDateSwapped(dd, mm, yyyy) ==
  <<yyyy, "-", PadStart2(dd), "-", PadStart2(mm)>>

\* convertRussianDate(dd, mm, yyyy)
convertRussianDate(dd, mm, yyyy) ==
  <<yyyy, "-", PadStart2(mm), "-", PadStart2(dd)>>

RECURSIVE NonSpaceRun(_)
\* \S+ : the atoms up to the next blank
NonSpaceRun(s) ==
  IF s = <<>> \/ s[1] = " " THEN <<>>
  ELSE <<s[1]>> \o NonSpaceRun(Drop(s, 1))

\* The tail shared by the four patterns of a law, matched at the head of s:
\* \s+ot\s+(\d{2})\.(\d{2})\.(\d{4})\s+No\s*(\S+)
DateAndNumber(s) ==
  IF /\ Len(s) >= 12
     /\ s[1] = " " /\ s[2] = "ot" /\ s[3] = " "
     /\ s[4] \in DigitRuns /\ Len(s[4]) = 2
     /\ s[5] = "."
     /\ s[6] \in DigitRuns /\ Len(s[6]) = 2
     /\ s[7] = "."
     /\ s[8] \in DigitRuns /\ Len(s[8]) = 4
     /\ s[9] = " " /\ s[10] = "No"
     /\ NonSpaceRun(SkipWs(Drop(s, 10))) # <<>>
  THEN [matched |-> TRUE,
        date |-> convertRussianDate(s[4], s[6], s[8]),
        number |-> NonSpaceRun(SkipWs(Drop(s, 10)))]
  ELSE [matched |-> FALSE, date |-> <<>>, number |-> <<>>]

\* raw.match(pattern) for the pattern of the type: the keywords anywhere in
\* the string, then the tail.
MatchLaw(raw, type) ==
  LET kw == KeywordsOf(type)
      At(k) == /\ k + Len(kw) - 1 <= Len(raw)
               /\ SubSeq(raw, k, k + Len(kw) - 1) = kw
               /\ DateAndNumber(Drop(raw, k + Len(kw) - 1)).matched
      starts == {k \in 1..Len(raw) : At(k)}
  IN  IF starts = {} THEN [matched |-> FALSE, date |-> <<>>, number |-> <<>>]
      ELSE LET k == CHOOSE j \in starts : \A h \in starts : j <= h
           IN  DateAndNumber(Drop(raw, k + Len(kw) - 1))

\* raw.match(SHORT_FZ_PATTERN), /^No\s*(\S*-FZ)\s*$/i
MatchShortFz(raw) ==
  LET rest == IF raw # <<>> /\ raw[1] = "No" THEN SkipWs(Drop(raw, 1)) ELSE <<>>
      num == NonSpaceRun(rest)
  IN  IF /\ Len(num) >= 2
         /\ num[Len(num) - 1] = "-" /\ num[Len(num)] = "FZ"
         /\ SkipWs(Drop(rest, Len(num))) = <<>>
      THEN [matched |-> TRUE, number |-> num]
      ELSE [matched |-> FALSE, number |-> <<>>]

\* raw.match(CODE_PATTERN): a word, blanks, "kodeks", blanks, "RF"
MatchCode(raw) ==
  \E k \in 2..(Len(raw) - 3) :
    /\ raw[k] = " " /\ raw[k + 1] = "kodeks"
    /\ raw[k + 2] = " " /\ raw[k + 3] = "RF"

Unrecognized ==
  [type |-> "unknown", number |-> <<>>, date |-> <<>>, valid |-> FALSE]

\* parseCitation(citation): the patterns in the order of the code.
parseCitation(citation) ==
  LET raw == TrimLine(citation)
      Law(type, m) ==
        [type |-> type, number |-> m.number, date |-> m.date, valid |-> TRUE]
  IN  IF raw = <<>> THEN Unrecognized
      ELSE IF MatchLaw(raw, "federal_constitutional_law").matched
      THEN Law("federal_constitutional_law",
               MatchLaw(raw, "federal_constitutional_law"))
      ELSE IF MatchLaw(raw, "federal_law").matched
      THEN Law("federal_law", MatchLaw(raw, "federal_law"))
      ELSE IF MatchShortFz(raw).matched
      THEN [type |-> "federal_law", number |-> MatchShortFz(raw).number,
            date |-> <<>>, valid |-> TRUE]
      ELSE IF MatchCode(raw)
      THEN [type |-> "code", number |-> <<>>, date |-> <<>>, valid |-> TRUE]
      ELSE IF MatchLaw(raw, "presidential_decree").matched
      THEN Law("presidential_decree", MatchLaw(raw, "presidential_decree"))
      ELSE IF MatchLaw(raw, "government_resolution").matched
      THEN Law("government_resolution",
               MatchLaw(raw, "government_resolution"))
      ELSE Unrecognized

CitationInit ==
  /\ PipelineIdle
  /\ ParserIdle
  /\ LimiterIdle
  /\ TimerIdle
  /\ ToolsIdle

\* A citation is given.
CitationGiven ==
  /\ cite.phase = "idle"
  /\ \E t \in CitationTypes, d \in CitationDates, n \in CitationNumbers :
       cite' = [cite EXCEPT !.phase = "given",
                            !.given = [type |-> t, number |-> n, date |-> d]]
  /\ UNCHANGED <<dec, drift, pipelineVars, parserVars, limiterVars, timerVars>>

\* formatCitation(c, 'full')
FormatCitation ==
  /\ cite.phase = "given"
  /\ cite' = [cite EXCEPT !.phase = "formatted",
                          !.formatted = formatFull(cite.given.type, cite.given)]
  /\ UNCHANGED <<dec, drift, pipelineVars, parserVars, limiterVars, timerVars>>

\* parseCitation of the formatted string
ParseCitation ==
  /\ cite.phase = "formatted"
  /\ cite' = [cite EXCEPT !.phase = "parsed",
                          !.parsed = parseCitation(cite.formatted)]
  /\ UNCHANGED <<dec, drift, pipelineVars, parserVars, limiterVars, timerVars>>

CitationNext ==
  \/ CitationGiven
  \/ FormatCitation
  \/ ParseCitation

CitationSpec == CitationInit /\ [][CitationNext]_vars

(***************************************************************************)
(* Properties.                                                             *)
(***************************************************************************)
\* The ids of the entries this run is to process, in order.
ToProcessIds == {toProcess[k].id : k \in 1..Len(toProcess)}

\* The outcomes after which an entry's seed file holds a document.
WrittenOutcomes ==
  {"cached", "real", "small", "empty", "status", "fetch_error", "skip_fetch"}

\* The outcomes in which the fetch gave no real content and a placeholder
\* was stored instead.
NoContentOutcomes == {"fetch_error", "status", "small", "empty"}

\* The run before this one processed the entries this run processes, and
\* left a seed document for each of them.
PrevRunWroteAll ==
  /\ run > 1
  /\ prevReport.total_processed = Len(ToProcess(catalog, limit))
  /\ \A k \in 1..Len(ToProcess(catalog, limit)) :
       prevOutcome[ToProcess(catalog, limit)[k].id] \in WrittenOutcomes

C2_PlaceholderRefetched ==
  (run > 1 /\ ~skipFetch) =>
    \A k \in 1..i :
      prevOutcome[toProcess[k].id] \in {"fetch_error", "status"}
        => toProcess[k].id \in fetched

\* C3 (as claimed): the first request of a fetch call is sent at least
\* MIN_DELAY_MS after every request, retries included, of the call before.
C3_MinGapAfterEveryRequest ==
  firstGap = -1 \/ firstGap >= 1000

\* C4 (as claimed): a fetch call whose attempts all ended in a retryable
\* failure (429, 5xx or an exception) and that has used up its attempts
\* raises an error instead of returning a FetchResult.
C4_ExhaustedRetriesRaise ==
  ( /\ pc = "persist"
    /\ requestsSent = 4
    /\ \/ lastResponse.kind = "exception"
       \/ /\ lastResponse.kind = "response"
          /\ (lastResponse.status = 429 \/ lastResponse.status >= 500) )
    => fetchResult.kind = "error"

\* C5: within one fetch call the backoff delays never decrease from one
\* attempt to the next, each being 2^(attempt+1) * 1000 ms after an HTTP
\* status failure or 2^(attempt+1) * 2000 ms after a network-level failure.
C5_BackoffNonDecreasing ==
  /\ \A k \in 1..Len(backoffs) :
       backoffs[k] \in {Pow2(k) * 1000, Pow2(k) * 2000}
  /\ \A k \in 1..(Len(backoffs) - 1) : backoffs[k] <= backoffs[k + 1]

\* C5 witness: a call that has slept three backoffs, after a network-level
\* failure, then an HTTP one (an equal delay), then a network-level one.
C5_Witness ==
  /\ pc = "attempt"
  /\ attempt = 3
  /\ backoffs = <<4000, 4000, 16000>>

\* C6: a response whose status is not retryable (neither 429 nor 5xx) ends
\* the call at once, whatever number k <= 3 of retryable failures came
\* before it: the call returns that response's status and body, having sent
\* exactly k + 1 requests.
C6_FirstNonRetryableReturned ==
  ( /\ lastResponse.kind = "response"
    /\ lastResponse.status # 429
    /\ lastResponse.status < 500 )
    => /\ pc = "persist"
       /\ fetchResult.kind = "result"
       /\ fetchResult.status = lastResponse.status
       /\ fetchResult.body = lastResponse.body
       /\ fetchResult.serial = lastResponse.serial
       /\ requestsSent = lastResponse.serial + 1
       /\ Len(backoffs) = lastResponse.serial

\* C6 witness: 503, 503, 503, then 200: the call has returned the fourth
\* response.
C6_Witness ==
  /\ pc = "persist"
  /\ backoffs = <<2000, 4000, 8000>>
  /\ requestsSent = 4
  /\ fetchResult.kind = "result"
  /\ fetchResult.status = 200
  /\ fetchResult.serial = 3
  /\ fetchResult.body.articles = 2

\* The document ingestLaw stores when it has no real content: exactly one
\* provision, with article and reference key "0", position 0 and a body.
IsPlaceholderDoc(provs) ==
  /\ Len(provs) = 1
  /\ provs[1].article = "0"
  /\ provs[1].provision_ref = "0"
  /\ provs[1].order_index = 0
  /\ provs[1].content # ""

\* C7: when the fetch of a processable, not yet ingested entry raised, gave
\* a status other than 200, gave a body of at most 100 characters, or gave a
\* text without provisions, the seed handed to the write is the placeholder
\* document; once written, the entry's seed file holds it, the entry is
\* recorded as ingested with one provision, and the loop has moved on.
C7_PlaceholderPersisted ==
  /\ (pc = "persist" /\ Cause(fetchResult) \in NoContentOutcomes)
       => IsPlaceholderDoc(provisions)
  /\ \A k \in 1..i :
       outcome[toProcess[k].id] \in NoContentOutcomes =>
         /\ disk[toProcess[k].id].state = "ok"
         /\ IsPlaceholderDoc(disk[toProcess[k].id].provisions)
         /\ results[k].ingested
         /\ results[k].provision_count = 1
         /\ pc # "exited" \/ i = Len(toProcess)

\* C7 witness: both entries of a run got a placeholder, one for a body at or
\* below the threshold and one for a fetch that raised, and the run is done.
C7_Witness ==
  /\ pc = "done"
  /\ Len(toProcess) = 2
  /\ outcome[toProcess[1].id] = "small"
  /\ outcome[toProcess[2].id] = "fetch_error"
  /\ IsPlaceholderDoc(disk[toProcess[1].id].provisions)
  /\ IsPlaceholderDoc(disk[toProcess[2].id].provisions)

\* A required id is missing from the loaded catalog.
RequiredMissing ==
  \E id \in {"constitution-rf", "uk-rf", "gk-rf-1", "fz-152-2006",
             "fz-149-2006", "fz-187-2017"} :
    \A j \in 1..Len(catalog) : catalog[j].id # id

\* C8: with a required id missing from the catalog, a run never gets past
\* validation: it ends with exit status 1, no fetch is ever issued, and
\* neither a seed document nor census.json nor the EU references is written.
C8_ValidationFatalFirst ==
  RequiredMissing =>
    /\ pc \in {"main", "exited"}
    /\ pc = "exited" => exitCode = 1
    /\ fetched = {}
    /\ requestsSent = 0
    /\ sinceLastSend = -1
    /\ censusFile = "absent"
    /\ euRefsFile = FALSE
    /\ \A id \in Ids : disk[id] = AbsentFile

\* C8 witness: a run over a catalog without fz-187-2017 has exited.
C8_Witness ==
  /\ pc = "exited"
  /\ exitCode = 1
  /\ \A j \in 1..Len(catalog) : catalog[j].id # "fz-187-2017"
  /\ Len(catalog) = 6

\* C9: an entry whose processing failed is recorded as one failure and the
\* loop goes on: every handled entry has exactly one result, failCount is
\* the number of failed results, and a run that got past validation ends
\* only after every entry to process has been handled.
C9_EntryFailureContained ==
  /\ Len(results) = i
  /\ failCount = Cardinality({k \in 1..Len(results) : ~results[k].ingested})
  /\ \A k \in 1..Len(results) : results[k].id = toProcess[k].id
  /\ (pc \in {"done", "exited"} /\ ~RequiredMissing /\ ~censusOnly)
       => i = Len(toProcess)

\* C9 witness: the write of the first entry failed, the second entry was
\* still fetched and written, and the run completed.
C9_Witness ==
  /\ pc = "done"
  /\ exitCode = 0
  /\ Len(toProcess) = 2
  /\ outcome[toProcess[1].id] = "write_failed"
  /\ outcome[toProcess[2].id] = "real"
  /\ failCount = 1
  /\ successCount = 1

\* C10 (as claimed): when a run completes, every entry it attempted that got
\* only a placeholder is in the report's list of failed identifiers with a
\* reason, and is not counted as a success.
C10_PlaceholdersReportedFailed ==
  (pc = "done" /\ ~censusOnly) =>
    \A k \in 1..Len(toProcess) :
      outcome[toProcess[k].id] \in NoContentOutcomes =>
        /\ \E f \in 1..Len(report.failed) :
             /\ report.failed[f].id = toProcess[k].id
             /\ report.failed[f].error # ""
        /\ ~results[k].ingested

(***************************************************************************)
(* Properties of parseRussianText (specification ParserSpec).              *)
(***************************************************************************)
\* What parseRussianText gives for the text read so far.
ResultOfText == IF ppc = "done" THEN parsed ELSE parseRussianText(text)

\* The provisions flushArticle emitted, before the deduplication.
Emitted == pst.provisions

\* C11: for every input text parseRussianText ends with a list (no step of
\* it fails), and the order_index of the k-th provision of the list, counted
\* from 0, is k.
C11_OrderIndexContiguous ==
  /\ \A k \in 1..Len(ResultOfText) : ResultOfText[k].order_index = k - 1
  /\ ppc = "done" => parsed = parseRussianText(text)

\* A parse in which the deduplication removed an occurrence that was not the
\* last provision emitted, and two provisions were returned.
C11_Witness ==
  /\ ppc = "done"
  /\ Len(parsed) >= 2
  /\ \E j \in 1..Len(Emitted) : \E k \in (j + 1)..Len(Emitted) :
       /\ Emitted[j].article = Emitted[k].article
       /\ k < Len(Emitted)

FirstEmitted(article) ==
  CHOOSE j \in 1..Len(Emitted) :
    /\ Emitted[j].article = article
    /\ \A h \in 1..(j - 1) : Emitted[h].article # article

RECURSIVE JoinedBodies(_)
\* The bodies of the provisions of a list, in order, an empty line between
\* one body and the next.
JoinedBodies(provs) ==
  IF Len(provs) = 1 THEN provs[1].content
  ELSE provs[1].content \o <<BlankLine>> \o JoinedBodies(Drop(provs, 1))

\* C12: when an article number is emitted more than once, the returned list
\* has exactly one provision for it, at the position of its first
\* occurrence, whose body is the bodies of all its occurrences in first-seen
\* order with a blank line between them; article numbers and reference keys
\* are pairwise distinct in the list.
C12_DuplicatesMerged ==
  ppc = "done" =>
    /\ \A j, k \in 1..Len(parsed) :
         j # k => /\ parsed[j].article # parsed[k].article
                  /\ parsed[j].provision_ref # parsed[k].provision_ref
    /\ {parsed[k].article : k \in 1..Len(parsed)}
         = {Emitted[k].article : k \in 1..Len(Emitted)}
    /\ \A j, k \in 1..Len(parsed) :
         j < k => FirstEmitted(parsed[j].article)
                    < FirstEmitted(parsed[k].article)
    /\ \A k \in 1..Len(parsed) :
         LET Same(p) == p.article = parsed[k].article
         IN  parsed[k].content = JoinedBodies(SelectSeq(Emitted, Same))

\* A parse in which a number was emitted twice with another number between,
\* and one in which it was emitted twice in a row with different bodies.
C12_Witness ==
  /\ ppc = "done"
  /\ Len(Emitted) = 3
  /\ \/ /\ Emitted[1].article = Emitted[3].article
        /\ Emitted[1].article # Emitted[2].article
     \/ /\ Emitted[1].article = Emitted[2].article
        /\ Emitted[1].content # Emitted[2].content

\* A line that begins, blanks aside, with the article keyword, blanks and a
\* number.
IsMarkerLine(line) ==
  LET t == TrimLine(line)
  IN  Len(t) >= 3 /\ t[1] = KW /\ t[2] = SP /\ t[3] \in Digits

\* C13: a text without an article-start marker line parses to the empty
\* list.
C13_NoMarkerNoProvision ==
  (\A k \in 1..Len(text) : ~IsMarkerLine(text[k])) => ResultOfText = <<>>

\* A text of ordinary lines, a heading among them, parsed to the empty list.
C13_Witness ==
  /\ ppc = "done"
  /\ Len(text) >= 3
  /\ \A k \in 1..Len(text) : ~IsMarkerLine(text[k])
  /\ \E k \in 1..Len(text) : text[k] = BodyLine
  /\ \E k \in 1..Len(text) : text[k] = PartLine
  /\ parsed = <<>>

\* C14 as stated: parsing the body of any provision of any text gives the
\* empty list.
C14_ReparseInert ==
  ppc = "done" =>
    \A k \in 1..Len(parsed) : parseRussianText(parsed[k].content) = <<>>

\* A marker line whose trailing text holds an article marker again.
HasNestedMarker(line) ==
  LET t == TrimLine(line)
  IN  /\ IsMarkerLine(line)
      /\ \E k \in 2..(Len(t) - 2) :
           t[k] = KW /\ t[k + 1] = SP /\ t[k + 2] \in Digits

\* C14, amended: when no marker line of the text carries a second article
\* marker in its trailing text, parsing the body of any provision gives the
\* empty list.
C14_ReparseInertWithoutNestedMarker ==
  (ppc = "done" /\ \A k \in 1..Len(text) : ~HasNestedMarker(text[k])) =>
    \A k \in 1..Len(parsed) : parseRussianText(parsed[k].content) = <<>>

\* A parse without nested marker that returned a provision whose body holds
\* the trailing text of its marker line and a line after it.
C14_Witness ==
  /\ ppc = "done"
  /\ \A k \in 1..Len(text) : ~HasNestedMarker(text[k])
  /\ \E k \in 1..Len(text) : text[k] = Marker5Item
  /\ \E k \in 1..Len(parsed) : Len(parsed[k].content) >= 2

\* The number a marker line is written with: one number or two numbers
\* with a period between.
MarkerNumber(line) ==
  LET t == TrimLine(line)
  IN  IF Len(t) >= 5 /\ t[4] = DOT /\ t[5] \in Digits
      THEN t[3] \o "." \o t[5] ELSE t[3]

\* The text that trails the number of a marker line.
MarkerTrail(line) ==
  LET t == TrimLine(line)
  IN  IF Len(t) >= 5 /\ t[4] = DOT /\ t[5] \in Digits
      THEN SkipDotWs(Drop(t, 5)) ELSE SkipDotWs(Drop(t, 3))

\* A line that is neither blank nor marker nor heading.
IsBodyLine(line) ==
  LET t == TrimLine(line)
  IN  t # <<>> /\ t[1] \notin {KW, APP} \cup ChapterWords

MarkerPositions == {k \in 1..Len(text) : IsMarkerLine(text[k])}

\* The text is made of article blocks with distinct numbers: it begins with
\* a marker line, a marker line has no or a short trailing text and a body
\* line after it, and every other line is a body line or blank.
IsBlockText ==
  /\ text # <<>>
  /\ 1 \in MarkerPositions
  /\ \A k \in MarkerPositions :
       /\ LineLength(MarkerTrail(text[k])) < 200
       /\ k < Len(text)
       /\ IsBodyLine(text[k + 1])
  /\ \A k \in 1..Len(text) :
       k \notin MarkerPositions => IsBodyLine(text[k]) \/ TrimLine(text[k]) = <<>>
  /\ \A j, k \in MarkerPositions :
       j # k => MarkerNumber(text[j]) # MarkerNumber(text[k])

\* The position in the text of the n-th marker line.
NthMarker(n) ==
  CHOOSE k \in MarkerPositions :
    Cardinality({j \in MarkerPositions : j <= k}) = n

\* The lines after the n-th marker line, up to the next marker line.
BlockBody(n) ==
  LET from == NthMarker(n) + 1
      to == IF n < Cardinality(MarkerPositions)
            THEN NthMarker(n + 1) - 1 ELSE Len(text)
  IN  SubSeq(text, from, to)

\* C15 as stated: a text of k article blocks parses to k provisions in
\* document order, the n-th with the number of the n-th marker line, its
\* trailing text as title, the lines after it as body and position n-1.
C15_BlocksParsed ==
  (ppc = "done" /\ IsBlockText) =>
    /\ Len(parsed) = Cardinality(MarkerPositions)
    /\ \A n \in 1..Len(parsed) :
         /\ parsed[n].article = MarkerNumber(text[NthMarker(n)])
         /\ parsed[n].title = LineText(MarkerTrail(text[NthMarker(n)]))
         /\ parsed[n].content = TrimBlank(CollapseBlank(BlockBody(n)))
         /\ parsed[n].order_index = n - 1

(***************************************************************************)
(* Properties of the orchestrator (specifications Spec and CrashSpec).     *)
(***************************************************************************)
\* C16 as stated: once the process was terminated, every seed file is
\* absent or a complete document, and the entries this run had written
\* before still have their document.
C16_SeedWriteAllOrNothing ==
  (pc = "exited" /\ exitCode = 137) =>
    /\ \A id \in Ids : disk[id].state \in {"absent", "ok"}
    /\ \A id \in Ids : outcome[id] \in WrittenOutcomes => disk[id].state = "ok"

\* The ids of the catalog whose entry is classified 'ingestable'.
IngestableIds ==
  {catalog[k].id : k \in {j \in 1..Len(catalog) :
                            catalog[j].classification = "ingestable"}}

\* C17: the fetcher is called only for catalog entries classified
\* 'ingestable': every id fetched in the run is one of them, and while a
\* fetch call is under way or a request was sent the entry at hand is one.
C17_OnlyIngestableFetched ==
  /\ fetched \subseteq IngestableIds
  /\ (pc \in {"rateLimit", "attempt", "inflight"} \/ requestsSent > 0) =>
       toProcess[i + 1].id \in IngestableIds

\* A finished run over a catalog with entries of the three other
\* classifications, in which two entries were fetched.
C17_Witness ==
  /\ pc = "done"
  /\ exitCode = 0
  /\ Cardinality(fetched) = 2
  /\ \A c \in {"ocr_needed", "inaccessible", "excluded"} :
       \E k \in 1..Len(catalog) : catalog[k].classification = c

\* The place of an id in the catalog.
CatalogPlace(id) == CHOOSE k \in 1..Len(catalog) : catalog[k].id = id

\* C18: entries are processed one at a time in catalog order: the results
\* are those of the first i entries to process, in order, the entries to
\* process stand in catalog order, an entry after the one at hand has not
\* been touched (no fetch, no outcome), and a fetch call under way belongs
\* to entry i+1, all entries before it having their result.
C18_OneEntryAtATime ==
  /\ Len(results) = i
  /\ i <= Len(toProcess)
  /\ \A k \in 1..Len(results) : results[k].id = toProcess[k].id
  /\ \A j, k \in 1..Len(toProcess) :
       j < k => CatalogPlace(toProcess[j].id) < CatalogPlace(toProcess[k].id)
  /\ \A k \in 1..Len(toProcess) :
       k > i + 1 => /\ toProcess[k].id \notin fetched
                    /\ outcome[toProcess[k].id] = "none"
  /\ \A k \in 1..Len(toProcess) :
       k <= i => outcome[toProcess[k].id] # "none"
  /\ pc \in {"rateLimit", "attempt", "inflight", "persist"} =>
       /\ i < Len(toProcess)
       /\ outcome[toProcess[i + 1].id] = "none"
       /\ fetched \subseteq {toProcess[k].id : k \in 1..(i + 1)}

\* The second of two entries is being fetched, the first having its result.
C18_Witness ==
  /\ pc = "inflight"
  /\ i = 1
  /\ Len(toProcess) = 2
  /\ Len(results) = 1
  /\ toProcess[1].id \in fetched

(***************************************************************************)
(* Properties of the fetcher (specifications LimiterSpec and FetchSpec).   *)
(***************************************************************************)
\* C19 as stated: the first requests of any two calls, overlapping or not,
\* are sent at least MIN_DELAY_MS apart.
C19_OverlappingCallsSpaced ==
  \A a, b \in 1..NumCalls :
    (a < b /\ calls[a].sentAt >= 0 /\ calls[b].sentAt >= 0) =>
      \/ calls[b].sentAt - calls[a].sentAt >= MIN_DELAY_MS
      \/ calls[a].sentAt - calls[b].sentAt >= MIN_DELAY_MS

\* C20 as stated: an attempt, from the sending of its request to the end of
\* the reading of the body, never lasts longer than REQUEST_TIMEOUT_MS, and
\* a call throws on a timeout only when no attempt is left (else the
\* timeout is followed by the backoff of a failed attempt and a retry).
C20_AttemptBoundedByTimeout ==
  /\ attemptTime <= REQUEST_TIMEOUT_MS
  /\ (lastResponse.kind = "timeout" /\ pc = "thrown") => attempt = maxRetries
  /\ (lastResponse.kind = "timeout" /\ pc = "attempt") =>
       /\ attempt = lastResponse.serial + 1
       /\ backoffs[Len(backoffs)] = Pow2(attempt) * 2000

\* C21 (as claimed): a failure while the body of a response is read ends the
\* call of fetchWithRateLimit at once: the call has thrown, and the request
\* whose body failed is the last one the call has sent.
C21_BodyFailureNotRetried ==
  lastResponse.kind = "body_error" =>
    /\ pc = "thrown"
    /\ requestsSent = lastResponse.serial + 1

\* fetcher.ts: the request forms it offers for a document: the save-as-text
\* form (fetchPravoLawText) and the rendered-markup forms (fetchPravoLaw,
\* fetchPravoLawFull).
TextForm == "savetext"
MarkupForms == {"docbody", "docbody_all"}

\* ingestLaw: the forms requested for entry `id` in this run.  Its one call
\* into the fetcher is fetchPravoLawText(entry.nd); no other fetch function
\* is imported.
FormsRequested(id) == IF id \in fetched THEN {TextForm} ELSE {}

\* The plain-text form of `id` turned out unavailable (the call failed or
\* the status was not 200) or empty (a body of no more than the minimum
\* content length).
TextFormUnavailable(id) == outcome[id] \in {"fetch_error", "status", "small"}

\* C22 (as claimed): for every entry whose plain-text form was unavailable or
\* empty, a request for a rendered-markup form has been issued by the time
\* the entry's seed is written.
C22_MarkupRequestedWhenTextUnavailable ==
  \A id \in Ids :
    TextFormUnavailable(id) => FormsRequested(id) \cap MarkupForms # {}

\* C23 (as claimed): a run ends with a non-zero exit status only when the
\* validation of the catalog failed; every run over a valid catalog completes
\* with status 0.
C23_OnlyValidationEndsAbnormally ==
  (pc \in {"done", "exited"} /\ ~RequiredMissing) => exitCode = 0

\* The line the loop of parseRussianText read last.
LastLine == TrimLine(text[Len(text)])

\* The text that trails the number on the article-start line read last, as
\* the loop has it in restOfLine.
TrailingText == TrimLine(ArticleMatch(LastLine).rest)

\* The text ends in sentence-terminal punctuation.
EndsSentence(t) == t # <<>> /\ t[Len(t)] = DOT

\* C24 (as claimed): right after an article-start line is read, its trailing
\* text is the article's title when it is shorter than 200 characters, no
\* enumerated item and not ended by sentence-terminal punctuation; in every
\* other case the title is empty and the trailing text is the first line of
\* the body.
C24_TitleOnlyWithoutTerminalPunctuation ==
  (ppc = "lines" /\ text # <<>> /\ ArticleMatch(LastLine).matched) =>
    IF /\ TrailingText # <<>>
       /\ LineLength(TrailingText) < 200
       /\ ~EnumeratedItem(TrailingText)
       /\ ~EndsSentence(TrailingText)
    THEN pst.title = LineText(TrailingText) /\ pst.content = <<>>
    ELSE /\ pst.title = ""
         /\ pst.content = IF TrailingText = <<>> THEN <<>> ELSE <<TrailingText>>

\* A body that is not empty after trimming: it has a line, and its first and
\* last lines are not blank.
HasText(content) ==
  content # <<>> /\ content[1] # <<>> /\ content[Len(content)] # <<>>

\* A line that adds nothing to a body: a blank line, a heading, or an
\* article-start line whose trailing text is missing or becomes the title.
AddsNoBody(rawLine) ==
  LET line == TrimLine(rawLine)
      rest == TrimLine(ArticleMatch(line).rest)
  IN  \/ line = <<>>
      \/ /\ ArticleMatch(line).matched
         /\ LineLength(rest) < 200
         /\ ~EnumeratedItem(rest)
      \/ ~ArticleMatch(line).matched /\ CHAPTER_PATTERN(line)

\* The catalog entries of the model.
CatalogEntries ==
  {CensusEntryAt(k, n) : k \in 1..Len(CatalogIds), n \in 0..MaxIngestable}

\* C25: every provision flushArticle has pushed and every provision
\* parseRussianText returns has a body that is not empty after trimming; a
\* text whose articles all have empty bodies gives no provision; and the
\* seed ingestLaw builds from the returned list, for any catalog entry, has
\* at least one provision and no provision with an empty body (the returned
\* provisions, or the placeholder when there are none).
C25_ProvisionBodiesNonEmpty ==
  /\ \A k \in 1..Len(pst.provisions) : HasText(pst.provisions[k].content)
  /\ ppc = "done" =>
       /\ \A k \in 1..Len(parsed) : HasText(parsed[k].content)
       /\ (\A k \in 1..Len(text) : AddsNoBody(text[k])) => parsed = <<>>
       /\ \A e \in CatalogEntries :
            LET seed == BuildSeed(e, FinalProvisions(e, parsed))
            IN  IF parsed = <<>>
                THEN /\ Len(seed.provisions) = 1
                     /\ seed.provisions[1].content # ""
                ELSE seed.provisions = parsed

\* A parse of a text with two article-start lines of different numbers, the
\* first without a body, that returned one provision only.
C25_Witness ==
  /\ ppc = "done"
  /\ text = <<Marker6, BlankLine, Marker5Title, BodyLine>>
  /\ Len(parsed) = 1
  /\ parsed[1].article = "5"

\* A line that begins, blanks aside, with the appendix keyword.
IsAppendixMarker(line) ==
  LET t == TrimLine(line)
  IN  t # <<>> /\ t[1] = APP

\* C26 (as claimed): once an appendix marker line is read, and until the
\* next article-start line, no article is open and no line is being
\* accumulated: the article before the marker was flushed, and the marker
\* and the lines after it go to no body.
C26_AppendixSuppressesLines ==
  ppc = "lines" =>
    \A j \in 1..Len(text) :
      ( /\ IsAppendixMarker(text[j])
        /\ \A k \in (j + 1)..Len(text) :
             ~ArticleMatch(TrimLine(text[k])).matched )
        => pst.num = "" /\ pst.content = <<>>

\* C27: in a run with --census-only or with --skip-fetch no call into the
\* fetcher is made and no HTTP request is sent, for any entry; with
\* --census-only no seed file is written either.
C27_NoNetworkWhenDisabled ==
  /\ (censusOnly \/ skipFetch) =>
       /\ fetched = {}
       /\ requestsSent = 0
       /\ sinceLastSend = -1
       /\ pc \notin {"rateLimit", "attempt", "inflight"}
       /\ fetchResult = NoResult
  /\ censusOnly =>
       /\ \A id \in Ids : disk[id] = AbsentFile
       /\ pc \notin {"ingestion", "loop", "persist"}

\* A --skip-fetch run that has handled two entries and written their seeds.
C27_Witness ==
  /\ skipFetch
  /\ ~censusOnly
  /\ pc = "done"
  /\ Len(toProcess) = 2
  /\ successCount = 2
  /\ \A k \in 1..2 : disk[toProcess[k].id].state = "ok"

\* CensusEntry: whether the entry carries embedded text of the law.  The
\* interface has no field for it: an entry is metadata only.
HasCuratedText(entry) == FALSE

\* C28 (as claimed): in a run with --skip-fetch no seed file is written for
\* an entry that carries no embedded text.
C28_SkipFetchWritesCuratedOnly ==
  skipFetch =>
    \A k \in 1..Len(catalog) :
      ~HasCuratedText(catalog[k]) => disk[catalog[k].id] = AbsentFile

\* The ids of the catalog entries of another classification than
\* 'ingestable'.
NonIngestableIds == {catalog[k].id : k \in 1..Len(catalog)} \ IngestableIds

\* C29 (as claimed): when a full run without --limit is done, every catalog
\* entry that is not ingestable has a result recorded as skipped by
\* classification, which is no failure.
C29_SkippedByClassificationRecorded ==
  (pc = "done" /\ ~censusOnly /\ limit = 0) =>
    \A id \in NonIngestableIds :
      /\ \E k \in 1..Len(results) : results[k].id = id /\ ~results[k].ingested
      /\ \A k \in 1..Len(report.failed) : report.failed[k].id # id

\* C29, amended: a catalog entry that is not ingestable is left out before
\* the loop: it is not among the entries to process, has no result, ends
\* with no outcome, and is in no list of failed laws; the failed count
\* counts results of ingestable entries only.
C29_NonIngestableLeftOut ==
  /\ \A k \in 1..Len(toProcess) : toProcess[k].id \notin NonIngestableIds
  /\ \A k \in 1..Len(results) : results[k].id \notin NonIngestableIds
  /\ \A id \in NonIngestableIds : outcome[id] = "none"
  /\ \A k \in 1..Len(report.failed) : report.failed[k].id \notin NonIngestableIds
  /\ failCount = Cardinality({k \in 1..Len(results) :
                                /\ ~results[k].ingested
                                /\ results[k].id \in IngestableIds})

\* A finished full run over a catalog with entries of the three other
\* classifications, whose list of failed laws is not empty.
C29_Witness ==
  /\ pc = "done"
  /\ ~censusOnly
  /\ limit = 0
  /\ failCount >= 1
  /\ report.failed # <<>>
  /\ Cardinality(NonIngestableIds) >= 3

\* C30 (as claimed): the report of every completed full run holds a coverage
\* percentage that is a number between 0 and 100, the successful entries
\* divided by the attempted entries (to one decimal place), whatever the
\* number of attempted entries, zero included.
C30_CoverageWellDefined ==
  (pc = "done" /\ ~censusOnly) =>
    /\ ~report.coverage_nan
    /\ report.coverage_tenths \in 0..1000
    /\ LET d == report.coverage_tenths * report.total_processed
                  - 1000 * report.success_count
       IN  -report.total_processed <= 2 * d /\ 2 * d <= report.total_processed

\* C31: a response body is decoded as windows-1251 if and only if the URL
\* of the request contains 'pravo.gov.ru' or the content type contains
\* 'windows-1251' or 'cp1251' (in these letters); otherwise the whole body is
\* decoded as UTF-8, the decoding of response.text().
C31_Windows1251Decision ==
  dec.phase = "decoded" =>
    LET legacy == \/ \E k \in 1..Len(dec.url) : dec.url[k] = "pravo.gov.ru"
                  \/ \E k \in 1..Len(dec.contentType) :
                       dec.contentType[k] \in {"windows-1251", "cp1251"}
    IN  /\ legacy => dec.body = DecodeWin1251(dec.bytes)
        /\ ~legacy => dec.body = DecodeUtf8(dec.bytes)

\* A body decoded as windows-1251 for its content type alone, the URL being
\* of another host, where UTF-8 decoding would have given another text.
C31_Witness ==
  /\ dec.phase = "decoded"
  /\ \A k \in 1..Len(dec.url) : dec.url[k] # "pravo.gov.ru"
  /\ dec.contentType = <<"text/plain; charset=", "cp1251">>
  /\ dec.bytes = <<209, 242>>
  /\ dec.body = <<1057, 1090>>

\* The entry's provision is missing or its query failed.
EntryIsError(row) == row.kind # "row"

\* The entry's provision is there and its hash is the golden one.
EntryMatches(row) ==
  row.kind = "row" /\ sha256(normalizeText(row.content)) = GoldenHash

\* C32: drift-detect exits with 1 when at least one entry is an error,
\* else with 2 when the hash of at least one entry differs, else with 0; it
\* exits with 0 exactly when the hash of every entry matches.
C32_DriftExitStatus ==
  drift.phase = "exited" =>
    LET E == drift.entries
        anyError == \E k \in 1..Len(E) : EntryIsError(E[k])
        anyDiffers == \E k \in 1..Len(E) :
                        ~EntryIsError(E[k]) /\ ~EntryMatches(E[k])
    IN  /\ drift.exitCode = IF anyError THEN 1
                            ELSE IF anyDiffers THEN 2 ELSE 0
        /\ drift.exitCode = 0 <=> \A k \in 1..Len(E) : EntryMatches(E[k])

\* A run over three entries, one matching, one drifted and one missing,
\* that exited with 1.
C32_Witness ==
  /\ drift.phase = "exited"
  /\ drift.results = <<"OK", "DRIFT", "ERROR">>
  /\ drift.exitCode = 1

\* An ISO date: four digits, hyphen, two digits, hyphen, two digits.
IsIsoDate(d) ==
  /\ Len(d) = 5
  /\ d[2] = "-" /\ d[4] = "-"
  /\ Len(d[1]) = 4 /\ Len(d[3]) = 2 /\ Len(d[5]) = 2

\* A number that is there and holds no white space.
IsWhitespaceFree(n) == n # <<>> /\ \A k \in 1..Len(n) : n[k] # " "

\* C33: for a citation of one of the four types of law with an ISO date and
\* a number free of white space, parsing its full format gives a valid
\* citation of the same type, number and date.
C33_CitationRoundTrip ==
  ( /\ cite.phase = "parsed"
    /\ IsIsoDate(cite.given.date)
    /\ IsWhitespaceFree(cite.given.number) ) =>
      /\ cite.parsed.valid
      /\ cite.parsed.type = cite.given.type
      /\ cite.parsed.number = cite.given.number
      /\ cite.parsed.date = cite.given.date

\* A presidential decree with an ISO date and a plain number, formatted and
\* parsed back.
C33_Witness ==
  /\ cite.phase = "parsed"
  /\ cite.given = [type |-> "presidential_decree", number |-> <<"683">>,
                   date |-> <<"2017", "-", "12", "-", "05">>]
  /\ cite.formatted = <<"Ukaz", " ", "Prezidenta", " ", "ot", " ", "05", ".",
                        "12", ".", "2017", " ", "No", " ", "683">>
  /\ cite.parsed.valid

\* C34: a seed file that is unparseable (the process was killed while it
\* was written) or missing is never taken as ingested: when a run handles its
\* entry, the entry is not skipped but processed, and unless this write fails
\* or is cut short too the file then holds a complete document with at least
\* one provision; and a completed run that follows a killed one has
\* processed every entry the kill had interrupted.
C34_CorruptSeedReprocessed ==
  /\ [][ \A id \in Ids :
           (disk[id].state # "ok" /\ outcome[id] = "none"
              /\ outcome'[id] # "none")
           => \/ /\ outcome'[id] \in WrittenOutcomes \ {"cached"}
                 /\ (id \in fetched \/ skipFetch)
                 /\ disk'[id].state = "ok"
                 /\ Len(disk'[id].provisions) >= 1
              \/ outcome'[id] \in {"write_failed", "killed"} ]_vars
  /\ [](\A id \in Ids :
          (pc = "done" /\ ~censusOnly /\ prevOutcome[id] = "killed"
             /\ id \in ToProcessIds)
          => outcome[id] \in (WrittenOutcomes \ {"cached"})
                            \cup {"write_failed"})

\* The run after a kill that left an unparseable seed file has fetched the
\* entry again, got its text, and is about to overwrite the file.
C34_Witness ==
  /\ run = 2
  /\ pc = "persist"
  /\ prevOutcome[toProcess[i + 1].id] = "killed"
  /\ disk[toProcess[i + 1].id] = CorruptFile
  /\ toProcess[i + 1].id \in fetched
  /\ Len(provisions) = 2

IsTwoPartMarkerNoPeriod(line) ==
  LET t == TrimLine(line)
  IN  /\ IsMarkerLine(line)
      /\ Len(t) >= 7
      /\ t[4] = DOT /\ t[5] \in Digits /\ t[6] = SP

\* C36 (as claimed): right after the loop has read an article-start line
\* with a two-part number "N.M" and no trailing period, the open article has
\* the number "N.M", and the text after the number is its title or its first
\* body line.
C36_TwoPartNumberWithoutPeriod ==
  (ppc = "lines" /\ text # <<>> /\ IsTwoPartMarkerNoPeriod(text[Len(text)])) =>
    /\ pst.num = MarkerNumber(text[Len(text)])
    /\ \/ pst.title = LineText(MarkerTrail(text[Len(text)])) /\ pst.content = <<>>
       \/ pst.title = "" /\ pst.content = <<MarkerTrail(text[Len(text)])>>

\* A heading line: blanks aside, a chapter, section, part or subsection
\* keyword, blanks, and a numeral.
IsHeadingLine(line) ==
  LET t == TrimLine(line)
  IN  /\ Len(t) >= 3
      /\ t[1] \in {"Glava", "Razdel", "Chast", "Podrazdel"}
      /\ t[2] = SP
      /\ t[3] \in {"1", "2", "5", "6", "12", "II"}

\* The lines read so far without the heading lines among them.
TextWithoutHeadings == SelectSeq(text, LAMBDA line : ~IsHeadingLine(line))

\* C37: heading lines change no parser state.  While the loop reads, its
\* locals are those it would have had the heading lines not been in the
\* text: no heading line is in a body, none has flushed or started an
\* article, and the lines after one went to the article open before it.
\* The list returned is the one returned for the text without them.
C37_HeadingChangesNothing ==
  /\ ppc = "lines" => pst = ParseLines(ParseStart, TextWithoutHeadings)
  /\ ppc = "done" => parsed = parseRussianText(TextWithoutHeadings)

\* A parse of an article with a heading line between two body lines: the
\* provision's body is the two body lines.
C37_Witness ==
  /\ ppc = "done"
  /\ text = <<Marker5Title, BodyLine, PartLine, BodyLine>>
  /\ Len(parsed) = 1
  /\ parsed[1].article = "5"
  /\ parsed[1].content = <<BodyLine, BodyLine>>

\* The three counters of the run, in one tuple.
RunCounters == <<successCount, failCount, skipCount>>

\* C38: at every point of the entry loop the three counters add up to the
\* number i of entries handled, and the step that handles an entry adds one
\* to exactly one of them and leaves the other two as they are.
C38_CountersConsistent ==
  /\ [](successCount + failCount + skipCount = i)
  /\ [][ i' = i + 1 =>
           \E n \in 1..3 :
             /\ RunCounters'[n] = RunCounters[n] + 1
             /\ \A m \in (1..3) \ {n} : RunCounters'[m] = RunCounters[m] ]_vars

\* A run in its loop that has handled two entries: one counted as ingested,
\* one, whose write threw, as failed.
C38_Witness ==
  /\ pc = "loop"
  /\ i = 2
  /\ successCount = 1
  /\ failCount = 1
  /\ skipCount = 0
  /\ outcome[toProcess[2].id] = "write_failed"

\* The call has ended: it returned a result or threw.
CallEnded == pc \in {"returned", "thrown"}

\* C39: a fetch call sends at most maxRetries + 1 requests and, when every
\* attempt completes or is aborted by its timer, ends: it returns a result
\* or throws, and an ended call sends nothing further.
C39_FetchTerminatesWithinBudget ==
  /\ [](requestsSent <= maxRetries + 1 /\ attempt <= maxRetries)
  /\ [](pc = "returned" => fetchResult.kind = "result")
  /\ [](pc = "thrown" => fetchResult.kind = "error")
  /\ [][CallEnded => (CallEnded' /\ requestsSent' = requestsSent)]_vars
  /\ <>CallEnded

\* A call that used its whole budget: four requests, each aborted by the
\* timer, three backoffs, then the error thrown.
C39_Witness ==
  /\ pc = "thrown"
  /\ requestsSent = maxRetries + 1
  /\ lastResponse.kind = "timeout"
  /\ Len(backoffs) = maxRetries
  /\ fetchResult.kind = "error"

\* The catalog places of the entries classified 'ingestable'.
ProcessablePlaces ==
  {k \in 1..Len(catalog) : catalog[k].classification = "ingestable"}

\* Number of entries a run is to attempt: all N processable ones without a
\* cap, min(L, N) with the cap L > 0.
AttemptBudget ==
  IF limit > 0 /\ limit < Cardinality(ProcessablePlaces)
  THEN limit ELSE Cardinality(ProcessablePlaces)

\* The ids of the first AttemptBudget processable entries of the catalog.
CappedIds ==
  {catalog[k].id :
     k \in {p \in ProcessablePlaces :
              Cardinality({q \in ProcessablePlaces : q <= p}) <= AttemptBudget}}

\* The ids this run has touched: fetched, given an outcome, or listed in the
\* results.
TouchedIds ==
  fetched \cup {id \in Ids : outcome[id] # "none"}
          \cup {results[k].id : k \in 1..Len(results)}

\* C40: a run touches only the first min(L, N) processable entries of the
\* catalog (all N without a cap), handles them in catalog order, and when
\* its loop has ended it has attempted every one of them once; the seed
\* file of any other entry is never created.
C40_LimitCapsEntries ==
  /\ TouchedIds \subseteq CappedIds
  /\ \A id \in Ids \ CappedIds : disk[id] = AbsentFile
  /\ \A j, k \in 1..Len(results) :
       j < k => CatalogPlace(results[j].id) < CatalogPlace(results[k].id)
  /\ (pc \in {"done", "exited"} /\ ~RequiredMissing /\ ~censusOnly) =>
       /\ {results[k].id : k \in 1..Len(results)} = CappedIds
       /\ Len(results) = AttemptBudget
       /\ \A id \in CappedIds : outcome[id] # "none"

\* A finished run with the cap 1 over a catalog with two processable
\* entries: the first was fetched and written, the second was left alone.
C40_Witness ==
  /\ pc = "done"
  /\ limit = 1
  /\ Cardinality(ProcessablePlaces) = 2
  /\ Len(results) = 1
  /\ results[1].id \in fetched
  /\ disk[results[1].id].state = "ok"
  /\ \E id \in IngestableIds \ CappedIds :
       outcome[id] = "none" /\ disk[id] = AbsentFile

=============================================================================
